---- MODULE Spec2Model ----
(***************************************************************************)
(* tcp_punch_hole of src/src/mapped_tcp_socket.rs.  Every thread of a call *)
(* is modelled: the main path, one connector per peer endpoint, the        *)
(* acceptor, one handshake worker per accepted connection and the timeout  *)
(* sentinel.  Spec is one call (peer A) against remote hosts X that do     *)
(* what they like, SpecFair the same with its threads scheduled fairly,    *)
(* SpecTimed the same with a clock, SpecPair two calls (A and B) against   *)
(* each other on a network without faults.  SpecMap is one call of         *)
(* MappedTcpSocket::map or MappedTcpSocket::new with its echo workers and  *)
(* the echo servers they talk to, SpecMapFair the same with its threads    *)
(* scheduled fairly.                                                       *)
(***************************************************************************)
EXTENDS Integers, Sequences, FiniteSets, TLC

VARIABLES
    cfg,        \* per peer: the arguments of its tcp_punch_hole call
    pc,         \* per peer: position of the main path
    idx,        \* per peer: index of the next endpoint of `for endpoint in their_endpoints`
    warnings,   \* per peer: `warnings`, the Vec the result loop pushes to
    pending,    \* per peer: what the main path is about to return (set by the result loop)
    result,     \* per peer: the value tcp_punch_hole returned
    workers,    \* per peer: the connector threads, then the handshake threads
    acc,        \* per peer: the "tcp_punch_hole listen" thread
    sentinel,   \* per peer: the "tcp_punch_hole timeout" thread
    shutdownOpen, \* per peer: listener_shutdown_tx not dropped yet
    sent,       \* per peer: every message that entered the results channel, in arrival order
    nrecv,      \* per peer: how many of them results_rx.recv() has returned
    rxAlive,    \* per peer: results_rx not dropped yet
    lst,        \* per peer: state of the listener made from `socket`
    backlog,    \* per peer: connections completed by the kernel, waiting for accept
    conns,      \* the TCP connections
    faults,     \* how many more system calls may fail for reasons outside the calls
    strays,     \* how many more connections hosts that are not peers may dial
    now,        \* the clock, in seconds
    map_args,   \* the call of MappedTcpSocket::map / new: entry point, socket, context
    map_pc,     \* position of the main path of map / new
    map_idx,    \* index of the loop the main path of map is in
    endpoints,  \* `endpoints` of map
    map_warnings,    \* `warnings` of map
    igd_requests,    \* requests made to IGD gateways so far
    gateway_searches, \* searches for an IGD gateway made so far
    mapping_threads, \* `mapping_threads` of map: the echo workers, in spawn order
    map_result, \* the value map returned
    new_result  \* the value new returned

\* The state of MappedTcpSocket::map and new, and the state of tcp_punch_hole.
mapVars == <<map_args, map_pc, map_idx, endpoints, map_warnings, igd_requests, gateway_searches,
             mapping_threads, map_result, new_result>>

punchVars == <<cfg, pc, idx, warnings, pending, result, workers, acc, sentinel,
               shutdownOpen, sent, nrecv, rxAlive, lst, backlog, conns, faults, strays, now>>

vars == <<cfg, pc, idx, warnings, pending, result, workers, acc, sentinel,
          shutdownOpen, sent, nrecv, rxAlive, lst, backlog, conns, faults, strays, now,
          mapVars>>

----------------------------------------------------------------------------
\* Bounds of the model.

MaxEndpoints == 1     \* longest endpoint list of a PubRendezvousInfo
MaxStray == 2         \* connections dialled by hosts that are not peers
MaxFaults == 1        \* system calls that fail for reasons outside the calls
MaxNow == 40          \* the clock stops here
MaxIfaces == 2        \* most interfaces of one family in a MappingContext
MaxServers == 2       \* most simple TCP servers registered in a MappingContext

\* Program constants.

timeout == 20         \* Duration::from_secs(20)
SecretLen == 4        \* [0u8; 4]

----------------------------------------------------------------------------
Peers == {"A", "B"}

\* rendezvous_info::get_priv_secret: the secret of the peer's own PrivRendezvousInfo.
get_priv_secret(p) == IF p = "A" THEN <<1, 1, 1, 1>> ELSE <<2, 2, 2, 2>>

\* A secret with its last byte changed (a PubRendezvousInfo corrupted in transit).
Mutated(s) == [s EXCEPT ![SecretLen] = (s[SecretLen] + 1) % 256]

Min(a, b) == IF a <= b THEN a ELSE b

\* --- connections and streams ------------------------------------------------

ConnectorConn(p, i) == <<"c", p, i>>
StrayConn(k) == <<"x", "X", k>>
NudgeConn(p) == <<"n", p, 0>>
NoConn == <<"-", "-", 0>>

ConnIds ==
    {ConnectorConn(p, i) : p \in Peers, i \in 1..MaxEndpoints}
        \cup {StrayConn(k) : k \in 1..MaxStray}
        \cup {NudgeConn(p) : p \in Peers}

Unused ==
    [st |-> "unused", srv |-> "-", toSrv |-> <<>>, toCli |-> <<>>,
     cliOpen |-> FALSE, srvOpen |-> FALSE, wrote |-> 0]

\* A TcpStream is one end of a connection.
NoStream == <<NoConn, "-">>
CliEnd(c) == <<c, "cli">>
SrvEnd(c) == <<c, "srv">>

\* The bytes that have arrived for stream s and were not read yet.
Inbox(cs, s) == IF s[2] = "cli" THEN cs[s[1]].toCli ELSE cs[s[1]].toSrv

\* Is the other end of s still open?
RemoteOpen(cs, s) == IF s[2] = "cli" THEN cs[s[1]].srvOpen ELSE cs[s[1]].cliOpen

LocalOpen(cs, s) == IF s[2] = "cli" THEN cs[s[1]].cliOpen ELSE cs[s[1]].srvOpen

\* A connection that no thread of a call can touch any more.
Gone == [Unused EXCEPT !.st = "gone"]

\* Is the other end of s held by a host that is not a peer?
RemoteIsStray(cs, s) == IF s[2] = "cli" THEN cs[s[1]].srv = "X" ELSE s[1][1] = "x"

\* Dropping a TcpStream closes its end of the connection: what had arrived for it is
\* discarded.  Once the other end is closed too, or belongs to a host that is not a
\* peer, no thread of a call can touch the connection any more.
CloseEnd(cs, s) ==
    IF s = NoStream \/ ~LocalOpen(cs, s) THEN cs
    ELSE IF ~RemoteOpen(cs, s) \/ RemoteIsStray(cs, s) THEN [cs EXCEPT ![s[1]] = Gone]
    ELSE IF s[2] = "cli" THEN [cs EXCEPT ![s[1]].cliOpen = FALSE, ![s[1]].toCli = <<>>]
    ELSE [cs EXCEPT ![s[1]].srvOpen = FALSE, ![s[1]].toSrv = <<>>]

RECURSIVE CloseAll(_, _)
CloseAll(cs, ss) ==
    IF ss = <<>> THEN cs ELSE CloseAll(CloseEnd(cs, Head(ss)), Tail(ss))

\* A write that sends nothing.
WriteNothing(cs, s, bytes) == cs

\* Bytes written on s arrive at the other end while that end is open.  What arrives
\* at a host that is not a peer is of no concern.
WriteTo(cs, s, bytes) ==
    IF ~RemoteOpen(cs, s) \/ RemoteIsStray(cs, s) THEN cs
    ELSE IF s[2] = "cli" THEN [cs EXCEPT ![s[1]].toSrv = @ \o bytes]
    ELSE [cs EXCEPT ![s[1]].toCli = @ \o bytes]

TakeFrom(cs, s, n) ==
    IF s[2] = "cli" THEN [cs EXCEPT ![s[1]].toCli = SubSeq(@, n + 1, Len(@))]
    ELSE [cs EXCEPT ![s[1]].toSrv = SubSeq(@, n + 1, Len(@))]

\* --- messages of the results channel -----------------------------------------
\* Option<Result<TcpStream, TcpPunchHoleWarning>>

NoMsg == [type |-> "-", stream |-> NoStream, warn |-> "-", data |-> <<>>]
NoneMsg == [type |-> "None", stream |-> NoStream, warn |-> "-", data |-> <<>>]
OkMsg(s) == [type |-> "Ok", stream |-> s, warn |-> "-", data |-> <<>>]
ErrMsg(kind, d) == [type |-> "Err", stream |-> NoStream, warn |-> kind, data |-> d]

RECURSIVE OkStreams(_)
OkStreams(ms) ==
    IF ms = <<>> THEN <<>>
    ELSE IF Head(ms).type = "Ok" THEN <<Head(ms).stream>> \o OkStreams(Tail(ms))
    ELSE OkStreams(Tail(ms))

\* --- the value tcp_punch_hole returns ---------------------------------------

NoResult == [kind |-> "none", stream |-> NoStream, warnings |-> <<>>, err |-> "-"]
WOk(s, ws) == [kind |-> "WOk", stream |-> s, warnings |-> ws, err |-> "-"]
WErr(k, e) == [kind |-> k, stream |-> NoStream, warnings |-> <<>>, err |-> e]
TimedOut(ws) == [kind |-> "TimedOut", stream |-> NoStream, warnings |-> ws, err |-> "-"]

\* --- threads ------------------------------------------------------------------

Connector(a) ==
    [kind |-> "connect", addr |-> a, pc |-> "connect", stream |-> NoStream,
     recv_data |-> <<>>, res |-> NoMsg, delivered |-> FALSE, rto |-> 0, since |-> 0]

Handshake(s) ==
    [kind |-> "handshake", addr |-> "-", pc |-> "write", stream |-> s,
     recv_data |-> <<>>, res |-> NoMsg, delivered |-> FALSE, rto |-> 0, since |-> 0]

NoAcceptor == [pc |-> "none"]

\* A call that runs its acceptor only when it has endpoints to dial.
AcceptorIfDialling(p) ==
    IF cfg[p].endpoints = <<>> THEN NoAcceptor ELSE [pc |-> "accept"]

\* The acceptor thread of p's call, as spawned: about to call accept().
Acceptor(p) == [pc |-> "accept"]
NoSentinel == [pc |-> "none", token |-> FALSE, deadline |-> 0]

\* new_reusably_bound_socket: create, reuse_address, enable_so_reuseport, bind; the
\* first step that fails decides the error.
NewReusablyBoundSocketSteps == <<"Create", "EnableReuseAddr", "EnableReusePort", "Bind">>

\* The result of new_reusably_bound_socket when step `failing` (0: none) fails.
new_reusably_bound_socket(failing) ==
    IF failing = 0 THEN "Ok" ELSE NewReusablyBoundSocketSteps[failing]

----------------------------------------------------------------------------
\* The arguments of a call: rendezvous_info::decompose(their_pub_rendezvous_info)
\* gives (their_endpoints, their_secret).

EndpointLists(addr) == UNION {[1..n -> {addr}] : n \in 0..MaxEndpoints}

Args(es, ours, theirs) == [endpoints |-> es, our_secret |-> ours, their_secret |-> theirs]

NoArgs == Args(<<>>, <<>>, <<>>)

\* One call: A is given endpoints of a remote host X.
SoloConfigs ==
    {[p \in Peers |->
        IF p = "A"
        THEN Args(es, get_priv_secret("A"), get_priv_secret("B"))
        ELSE NoArgs] : es \in EndpointLists("X")}

\* Two calls: each peer is given the other's listen address or no endpoint at all,
\* and B's secret may have reached A with a byte changed.
PairConfigs ==
    {[p \in Peers |->
        IF p = "A"
        THEN Args(ea, get_priv_secret("A"), sb)
        ELSE Args(eb, get_priv_secret("B"), get_priv_secret("A"))] :
        ea \in EndpointLists("B"), eb \in EndpointLists("A"),
        sb \in {get_priv_secret("B"), Mutated(get_priv_secret("B"))}}

----------------------------------------------------------------------------
\* MappedTcpSocket::map and MappedTcpSocket::new: arguments, results, workers.

\* Addresses.  A socket is bound to the unspecified address of its family, to the
\* address of an interface, or to an address no interface has.
Unspecified4 == [family |-> "v4", ip |-> "0.0.0.0"]
Unspecified6 == [family |-> "v6", ip |-> "::"]
NoAddr == [family |-> "-", ip |-> "-"]
IfaceAddrs4 == {"10.0.0.1", "10.0.0.2"}
IfaceAddrs6 == {"fe80::1"}
LocalAddrs ==
    {Unspecified4, Unspecified6}
        \cup [family : {"v4"}, ip : {"10.0.0.1", "192.168.0.9"}]
        \cup [family : {"v6"}, ip : {"fe80::1"}]

ipv4_is_unspecified(ip) == ip = "0.0.0.0"
ipv6_is_unspecified(ip) == ip = "::"

\* mapping_context::interfaces_v4 (each interface with or without an IGD gateway),
\* interfaces_v6 and simple_tcp_servers of a MappingContext.
Interfaces4 == UNION {[1..n -> [addr : IfaceAddrs4, gateway : BOOLEAN]] : n \in 0..MaxIfaces}
Interfaces6 == UNION {[1..n -> [addr : IfaceAddrs6]] : n \in 0..MaxIfaces}
SimpleServers == UNION {[1..n -> {"S"}] : n \in 0..MaxServers}

\* The calls: map on a bound socket, or new, which makes the socket itself.
MapArgs ==
    [entry : {"map"}, local_addr : LocalAddrs,
     v4 : Interfaces4, v6 : Interfaces6, servers : SimpleServers]
        \cup [entry : {"new"}, local_addr : {NoAddr},
              v4 : Interfaces4, v6 : Interfaces6, servers : SimpleServers]

NoMapArgs == [entry |-> "-", local_addr |-> NoAddr, v4 |-> <<>>, v6 |-> <<>>, servers |-> <<>>]

\* An endpoint that is never marked as NAT-restricted.
MappedSocketAddrUnrestricted(a, restricted, origin) ==
    [addr |-> a, nat_restricted |-> FALSE, from |-> origin]

\* MappedSocketAddr { addr, nat_restricted }; `from` records where the address was
\* learned: the socket's own address, an interface, an IGD gateway, an echo server.
MappedSocketAddr(a, restricted, origin) ==
    [addr |-> a, nat_restricted |-> restricted, from |-> origin]

\* WOk(MappedTcpSocket { socket, endpoints }, warnings) and WErr(e).
NoMapResult == [kind |-> "-", endpoints |-> <<>>, warnings |-> <<>>, err |-> <<>>]
MapOk(es, ws) == [kind |-> "WOk", endpoints |-> es, warnings |-> ws, err |-> <<>>]
MapErr(e) == [kind |-> "WErr", endpoints |-> <<>>, warnings |-> <<>>, err |-> e]

\* An echo worker as spawned.  `ops` are the steps new_reusably_bound_socket
\* attempted, `socket` its result, `inbox` what the server has answered, `res` the
\* value of the thread's closure.
NoReply == <<"none">>
NoOutcome == [type |-> "-", addr |-> "-", warn |-> "-", err |-> "-"]
EchoOk(a) == [type |-> "Ok", addr |-> a, warn |-> "-", err |-> "-"]
EchoErr(w, e) == [type |-> "Err", addr |-> "-", warn |-> w, err |-> e]
EchoWorker(server) ==
    [server |-> server, pc |-> "socket", ops |-> <<>>, socket |-> "-",
     inbox |-> NoReply, res |-> NoOutcome]

\* No call of map or new is under way.
MapIdle ==
    /\ map_args = NoMapArgs
    /\ map_pc = "idle"
    /\ map_idx = 1
    /\ endpoints = <<>>
    /\ map_warnings = <<>>
    /\ igd_requests = 0
    /\ gateway_searches = 0
    /\ mapping_threads = <<>>
    /\ map_result = NoMapResult
    /\ new_result = NoMapResult

InitCalls(running) ==
    /\ pc = [p \in Peers |-> IF p \in running THEN "local_addr" ELSE "idle"]
    /\ idx = [p \in Peers |-> 1]
    /\ warnings = [p \in Peers |-> <<>>]
    /\ pending = [p \in Peers |-> NoResult]
    /\ result = [p \in Peers |-> NoResult]
    /\ workers = [p \in Peers |-> <<>>]
    /\ acc = [p \in Peers |-> NoAcceptor]
    /\ sentinel = [p \in Peers |-> NoSentinel]
    /\ shutdownOpen = [p \in Peers |-> FALSE]
    /\ sent = [p \in Peers |-> <<>>]
    /\ nrecv = [p \in Peers |-> 0]
    /\ rxAlive = [p \in Peers |-> TRUE]
    /\ lst = [p \in Peers |-> "bound"]
    /\ backlog = [p \in Peers |-> <<>>]
    /\ conns = [c \in ConnIds |-> Unused]
    /\ now = 0

Init ==
    /\ cfg \in SoloConfigs
    /\ InitCalls({"A"})
    /\ faults = MaxFaults
    /\ strays = MaxStray - Len(cfg["A"].endpoints)
    /\ MapIdle

InitPair ==
    /\ cfg \in PairConfigs
    /\ InitCalls(Peers)
    /\ faults = 0
    /\ strays = 0
    /\ MapIdle

\* One call of map or new; no tcp_punch_hole call is under way.
InitMap ==
    /\ map_args \in MapArgs
    /\ map_pc = IF map_args.entry = "new" THEN "new" ELSE "local_addr"
    /\ map_idx = 1
    /\ endpoints = <<>>
    /\ map_warnings = <<>>
    /\ igd_requests = 0
    /\ gateway_searches = 0
    /\ mapping_threads = <<>>
    /\ map_result = NoMapResult
    /\ new_result = NoMapResult
    /\ cfg = [p \in Peers |-> NoArgs]
    /\ InitCalls({})
    /\ faults = 0
    /\ strays = 0

----------------------------------------------------------------------------
\* A system call that can fail for a reason outside the two calls (no descriptors
\* left, no route, ...) either succeeds or fails and uses up one of MaxFaults.
Outcomes == IF faults > 0 THEN {TRUE, FALSE} ELSE {TRUE}

Fault(ok) == faults' = IF ok THEN faults ELSE faults - 1

----------------------------------------------------------------------------
\* The main path of tcp_punch_hole.

\* A receiver whose drop leaves the queued messages alone.
KeepQueued(cs, p, n) == cs

\* The connections after every stream still queued in the channel of p, from message
\* n + 1 on, is dropped with results_rx.
DropQueued(cs, p, n) == CloseAll(cs, OkStreams(SubSeq(sent[p], n + 1, Len(sent[p]))))

\* let local_addr = match socket_utils::tcp_builder_local_addr(&socket)
MainLocalAddr(p) ==
    /\ pc[p] = "local_addr"
    /\ \E ok \in Outcomes :
         /\ Fault(ok)
         /\ IF ok
            THEN /\ pc' = [pc EXCEPT ![p] = "bind"]
                 /\ UNCHANGED <<result, rxAlive, lst>>
            ELSE /\ pc' = [pc EXCEPT ![p] = "returned"]
                 /\ result' = [result EXCEPT ![p] = WErr("SocketLocalAddr", "io")]
                 /\ rxAlive' = [rxAlive EXCEPT ![p] = FALSE]
                 /\ lst' = [lst EXCEPT ![p] = "closed"]
    /\ UNCHANGED <<mapVars, cfg, strays, idx, warnings, pending, workers, acc, sentinel, shutdownOpen,
                   sent, nrecv, backlog, conns, now>>

\* One turn of `for endpoint in their_endpoints`: bind a socket, spawn its connector.
MainBind(p) ==
    /\ pc[p] = "bind"
    /\ idx[p] <= Len(cfg[p].endpoints)
    /\ \E failing \in 0..Len(NewReusablyBoundSocketSteps) :
         LET r == new_reusably_bound_socket(failing) IN
         /\ (r = "Ok") \in Outcomes
         /\ Fault(r = "Ok")
         /\ IF r = "Ok"
            THEN /\ workers' = [workers EXCEPT
                       ![p] = Append(@, Connector(cfg[p].endpoints[idx[p]]))]
                 /\ idx' = [idx EXCEPT ![p] = @ + 1]
                 /\ UNCHANGED <<pc, result, rxAlive, lst, conns>>
            ELSE /\ pc' = [pc EXCEPT ![p] = "returned"]
                 /\ result' = [result EXCEPT ![p] = WErr("NewReusablyBoundSocket", r)]
                 /\ rxAlive' = [rxAlive EXCEPT ![p] = FALSE]
                 /\ lst' = [lst EXCEPT ![p] = "closed"]
                 /\ conns' = DropQueued(conns, p, nrecv[p])
                 /\ UNCHANGED <<workers, idx>>
    /\ UNCHANGED <<mapVars, cfg, strays, warnings, pending, acc, sentinel, shutdownOpen, sent, nrecv,
                   backlog, now>>

\* A main path that spawns the acceptor and the sentinel before it looks at what
\* listen returned.
MainListenSpawnsFirst(p) ==
    /\ pc[p] = "bind"
    /\ idx[p] > Len(cfg[p].endpoints)
    /\ acc' = [acc EXCEPT ![p] = Acceptor(p)]
    /\ sentinel' = [sentinel EXCEPT
          ![p] = [pc |-> "parked", token |-> FALSE, deadline |-> now + timeout]]
    /\ \E ok \in Outcomes :
         /\ Fault(ok)
         /\ IF ok
            THEN /\ lst' = [lst EXCEPT ![p] = "listening"]
                 /\ shutdownOpen' = [shutdownOpen EXCEPT ![p] = TRUE]
                 /\ pc' = [pc EXCEPT ![p] = "recv"]
                 /\ UNCHANGED <<result, rxAlive, conns>>
            ELSE /\ pc' = [pc EXCEPT ![p] = "returned"]
                 /\ result' = [result EXCEPT ![p] = WErr("Listen", "io")]
                 /\ rxAlive' = [rxAlive EXCEPT ![p] = FALSE]
                 /\ lst' = [lst EXCEPT ![p] = "closed"]
                 /\ conns' = DropQueued(conns, p, nrecv[p])
                 /\ UNCHANGED shutdownOpen
    /\ UNCHANGED <<mapVars, cfg, strays, idx, warnings, pending, workers, sent, nrecv, backlog, now>>

\* socket.listen(128), then the acceptor and the sentinel are spawned.
MainListen(p) ==
    /\ pc[p] = "bind"
    /\ idx[p] > Len(cfg[p].endpoints)
    /\ \E ok \in Outcomes :
         /\ Fault(ok)
         /\ IF ok
            THEN /\ lst' = [lst EXCEPT ![p] = "listening"]
                 /\ shutdownOpen' = [shutdownOpen EXCEPT ![p] = TRUE]
                 /\ acc' = [acc EXCEPT ![p] = Acceptor(p)]
                 /\ sentinel' = [sentinel EXCEPT
                       ![p] = [pc |-> "parked", token |-> FALSE,
                               deadline |-> now + timeout]]
                 /\ pc' = [pc EXCEPT ![p] = "recv"]
                 /\ UNCHANGED <<result, rxAlive, conns>>
            ELSE /\ pc' = [pc EXCEPT ![p] = "returned"]
                 /\ result' = [result EXCEPT ![p] = WErr("Listen", "io")]
                 /\ rxAlive' = [rxAlive EXCEPT ![p] = FALSE]
                 /\ lst' = [lst EXCEPT ![p] = "closed"]
                 /\ conns' = DropQueued(conns, p, nrecv[p])
                 /\ UNCHANGED <<shutdownOpen, acc, sentinel>>
    /\ UNCHANGED <<mapVars, cfg, strays, idx, warnings, pending, workers, sent, nrecv, backlog, now>>

\* A result loop that returns the stream without the warnings collected so far.
SelectedDropsWarnings(m, ws) ==
    IF m.type = "Err" THEN NoResult
    ELSE IF m.type = "None" THEN TimedOut(ws)
    ELSE WOk(m.stream, <<>>)

\* A result loop that gives up on the first warning.
SelectedFailFast(m, ws) ==
    IF m.type = "Ok" THEN WOk(m.stream, ws) ELSE TimedOut(ws)

\* A result loop whose timeout error forgets the warnings.
SelectedTimeoutForgets(m, ws) ==
    IF m.type = "Err" THEN NoResult
    ELSE IF m.type = "None" THEN TimedOut(<<>>)
    ELSE WOk(m.stream, ws)

\* What the result loop does with the message recv() returned: a warning is pushed
\* (NoResult: the loop goes on), a timeout or a stream decides what the call returns.
Selected(m, ws) ==
    IF m.type = "Err" THEN NoResult
    ELSE IF m.type = "None" THEN TimedOut(ws)
    ELSE WOk(m.stream, ws)

\* match results_rx.recv(): blocks while the channel is empty.  On a timeout or a
\* stream: timeout_thread_handle.unpark(); drop(listener_shutdown_tx);
MainRecv(p) ==
    /\ pc[p] = "recv"
    /\ nrecv[p] < Len(sent[p])
    /\ LET m == sent[p][nrecv[p] + 1]
           r == Selected(m, warnings[p]) IN
         /\ nrecv' = [nrecv EXCEPT ![p] = @ + 1]
         /\ IF r = NoResult
            THEN /\ warnings' = [warnings EXCEPT ![p] = Append(@, m)]
                 /\ UNCHANGED <<pc, pending, sentinel, shutdownOpen>>
            ELSE /\ pending' = [pending EXCEPT ![p] = r]
                 /\ sentinel' = [sentinel EXCEPT ![p].token = (sentinel[p].pc = "parked")]
                 /\ shutdownOpen' = [shutdownOpen EXCEPT ![p] = FALSE]
                 /\ pc' = [pc EXCEPT ![p] = "nudge"]
                 /\ UNCHANGED warnings
    /\ UNCHANGED <<mapVars, cfg, strays, idx, result, workers, acc, sent, rxAlive, lst, backlog, conns,
                   faults, now>>

\* let _ = TcpStream::connect(local_addr); then the function returns: results_rx is
\* dropped, and with it every message still queued.
MainNudge(p) ==
    /\ pc[p] = "nudge"
    /\ \E ok \in IF lst[p] = "listening" THEN Outcomes ELSE {FALSE} :
         /\ faults' = IF ok \/ lst[p] # "listening" THEN faults ELSE faults - 1
         /\ LET c == NudgeConn(p)
                dialled == IF ok
                           THEN [conns EXCEPT ![c] =
                                    [Unused EXCEPT !.st = "open", !.srv = p,
                                                   !.srvOpen = TRUE]]
                           ELSE conns IN
              /\ conns' = DropQueued(dialled, p, nrecv[p])
              /\ backlog' = IF ok THEN [backlog EXCEPT ![p] = Append(@, c)] ELSE backlog
    /\ pc' = [pc EXCEPT ![p] = "returned"]
    /\ result' = [result EXCEPT ![p] = pending[p]]
    /\ rxAlive' = [rxAlive EXCEPT ![p] = FALSE]
    /\ UNCHANGED <<mapVars, cfg, strays, idx, warnings, pending, workers, acc, sentinel, shutdownOpen,
                   sent, nrecv, lst, now>>

\* A main path that gives its sender away once the threads are spawned.
results_tx_moved(p) == pc[p] \in {"local_addr", "bind"}

\* let (results_tx, results_rx) = mpsc::channel(): the main path's own sender.  The
\* threads get clones of it; results_tx itself is dropped when the function returns.
results_tx(p) == pc[p] \notin {"idle", "returned"}

\* The senders of p's results channel that are alive: results_tx and the clones
\* held by the connectors, the acceptor, the handshake workers and the sentinel.
Senders(p) ==
    (IF results_tx(p) THEN 1 ELSE 0)
        + Cardinality({w \in DOMAIN workers[p] : workers[p][w].pc # "done"})
        + (IF acc[p].pc \in {"accept", "warn"} THEN 1 ELSE 0)
        + (IF sentinel[p].pc = "parked" THEN 1 ELSE 0)

\* results_rx.recv() returns Err, and the loop panics: the channel is empty and
\* every sender is gone.
RecvReturnsErr(p) ==
    /\ pc[p] = "recv"
    /\ nrecv[p] = Len(sent[p])
    /\ Senders(p) = 0

----------------------------------------------------------------------------
\* The acceptor: `for stream_res in listener.incoming()`.

\* The acceptor leaves its loop: the listener, the stream it holds and the
\* connections nobody accepted are dropped.
AcceptorExit(p, held) ==
    /\ acc' = [acc EXCEPT ![p].pc = "done"]
    /\ lst' = [lst EXCEPT ![p] = "closed"]
    /\ backlog' = [backlog EXCEPT ![p] = <<>>]
    /\ conns' = CloseAll(conns, held \o [i \in 1..Len(backlog[p]) |-> SrvEnd(backlog[p][i])])

\* An acceptor that handshakes inline: it takes the next connection only when the
\* handshakes it started have ended.
AcceptorAcceptInline(p) ==
    /\ acc[p].pc = "accept"
    /\ backlog[p] # <<>>
    /\ \A w \in DOMAIN workers[p] :
           workers[p][w].kind = "handshake" => workers[p][w].pc = "done"
    /\ IF ~shutdownOpen[p]
       THEN /\ AcceptorExit(p, <<>>)
            /\ UNCHANGED workers
       ELSE /\ workers' = [workers EXCEPT
                  ![p] = Append(@, Handshake(SrvEnd(Head(backlog[p]))))]
            /\ backlog' = [backlog EXCEPT ![p] = Tail(@)]
            /\ UNCHANGED <<acc, lst, conns>>
    /\ UNCHANGED <<mapVars, cfg, strays, pc, idx, warnings, pending, result, sentinel, shutdownOpen,
                   sent, nrecv, rxAlive, faults, now>>

\* An acceptor that never looks at the shutdown channel.
AcceptorAcceptAlways(p) ==
    /\ acc[p].pc = "accept"
    /\ backlog[p] # <<>>
    /\ workers' = [workers EXCEPT
          ![p] = Append(@, Handshake(SrvEnd(Head(backlog[p]))))]
    /\ backlog' = [backlog EXCEPT ![p] = Tail(@)]
    /\ UNCHANGED <<acc, lst, conns>>
    /\ UNCHANGED <<mapVars, cfg, strays, pc, idx, warnings, pending, result, sentinel, shutdownOpen,
                   sent, nrecv, rxAlive, faults, now>>

\* accept() returns a connection; listener_shutdown_rx.try_recv() says Disconnected
\* (break) or Empty, and then the handshake thread is spawned.
AcceptorAccept(p) ==
    /\ acc[p].pc = "accept"
    /\ backlog[p] # <<>>
    /\ IF ~shutdownOpen[p]
       THEN /\ AcceptorExit(p, <<>>)
            /\ UNCHANGED workers
       ELSE /\ workers' = [workers EXCEPT
                  ![p] = Append(@, Handshake(SrvEnd(Head(backlog[p]))))]
            /\ backlog' = [backlog EXCEPT ![p] = Tail(@)]
            /\ UNCHANGED <<acc, lst, conns>>
    /\ UNCHANGED <<mapVars, cfg, strays, pc, idx, warnings, pending, result, sentinel, shutdownOpen,
                   sent, nrecv, rxAlive, faults, now>>

\* accept() returns an error; try_recv() says Disconnected (break) or Empty.
AcceptorAcceptErr(p) ==
    /\ acc[p].pc = "accept"
    /\ faults > 0
    /\ faults' = faults - 1
    /\ IF ~shutdownOpen[p]
       THEN AcceptorExit(p, <<>>)
       ELSE /\ acc' = [acc EXCEPT ![p].pc = "warn"]
            /\ UNCHANGED <<lst, backlog, conns>>
    /\ UNCHANGED <<mapVars, cfg, strays, pc, idx, warnings, pending, result, workers, sentinel,
                   shutdownOpen, sent, nrecv, rxAlive, now>>

\* An acceptor that goes on accepting when its warning could not be sent.
AcceptorWarnContinues(p) ==
    /\ acc[p].pc = "warn"
    /\ sent' = IF rxAlive[p] THEN [sent EXCEPT ![p] = Append(@, ErrMsg("Accept", <<>>))] ELSE sent
    /\ acc' = [acc EXCEPT ![p].pc = "accept"]
    /\ UNCHANGED <<lst, backlog, conns>>
    /\ UNCHANGED <<mapVars, cfg, strays, pc, idx, warnings, pending, result, workers, sentinel,
                   shutdownOpen, nrecv, rxAlive, faults, now>>

\* results_tx_clone.send(Some(Err(Accept))): Ok => continue, Err => break.
AcceptorWarn(p) ==
    /\ acc[p].pc = "warn"
    /\ IF rxAlive[p]
       THEN /\ sent' = [sent EXCEPT ![p] = Append(@, ErrMsg("Accept", <<>>))]
            /\ acc' = [acc EXCEPT ![p].pc = "accept"]
            /\ UNCHANGED <<lst, backlog, conns>>
       ELSE /\ AcceptorExit(p, <<>>)
            /\ UNCHANGED sent
    /\ UNCHANGED <<mapVars, cfg, strays, pc, idx, warnings, pending, result, workers, sentinel,
                   shutdownOpen, nrecv, rxAlive, faults, now>>

----------------------------------------------------------------------------
\* The timeout sentinel: thread::park_timeout(timeout); send(None).

\* A sentinel that ends without sending anything.
SentinelEndsSilently(p) ==
    /\ sentinel' = [sentinel EXCEPT ![p] = [@ EXCEPT !.pc = "done", !.token = FALSE]]
    /\ UNCHANGED <<mapVars, cfg, strays, pc, idx, warnings, pending, result, workers, acc,
                   shutdownOpen, sent, nrecv, rxAlive, lst, backlog, conns, faults, now>>

\* results_tx_clone.send(None), whose failure (receiver gone) is ignored.
SentinelSend(p) ==
    /\ sentinel' = [sentinel EXCEPT ![p] = [@ EXCEPT !.pc = "done", !.token = FALSE]]
    /\ sent' = IF rxAlive[p] THEN [sent EXCEPT ![p] = Append(@, NoneMsg)] ELSE sent
    /\ UNCHANGED <<mapVars, cfg, strays, pc, idx, warnings, pending, result, workers, acc, shutdownOpen,
                   nrecv, rxAlive, lst, backlog, conns, faults, strays, now>>

\* park_timeout returns because the timeout elapsed.
SentinelTimeout(p) ==
    /\ sentinel[p].pc = "parked"
    /\ SentinelSend(p)

\* park_timeout returns because the main path unparked the thread.
SentinelUnparked(p) ==
    /\ sentinel[p].pc = "parked"
    /\ sentinel[p].token
    /\ SentinelSend(p)

----------------------------------------------------------------------------
\* Connectors and handshake workers.  Both set the stream's timeouts, write our
\* secret, read 4 bytes, compare them with their secret and send the outcome.

\* A stream whose read timeout was never set: its reads block without limit.
set_no_read_timeout(t) == 0

\* stream.set_read_timeout(Some(t)): the timeout of every later read call.
set_read_timeout(t) == t

\* A handshake that takes any 4 bytes for the secret.
CompareNothing(recv_data, their_secret, stream) == OkMsg(stream)

\* A handshake that compares the first byte only.
CompareFirstByte(recv_data, their_secret, stream) ==
    IF recv_data[1] # their_secret[1]
    THEN ErrMsg("InvalidResponse", recv_data)
    ELSE OkMsg(stream)

\* if recv_data != their_secret { InvalidResponse } else { Ok(stream) }
Compare(recv_data, their_secret, stream) ==
    IF recv_data # their_secret
    THEN ErrMsg("InvalidResponse", recv_data)
    ELSE OkMsg(stream)

\* results_tx_clone.send(Some(m)), its result ignored, and the thread ends.  A stream
\* lives on only inside a message the channel took; a message sent after results_rx
\* was dropped is dropped.
Report(p, w, wk, m, cs) ==
    /\ workers' = [workers EXCEPT ![p][w] =
           [wk EXCEPT !.pc = "done", !.res = m, !.delivered = rxAlive[p],
                      !.rto = 0, !.since = 0]]
    /\ sent' = IF rxAlive[p] THEN [sent EXCEPT ![p] = Append(@, m)] ELSE sent
    /\ conns' = IF rxAlive[p] /\ m.type = "Ok" THEN cs ELSE CloseEnd(cs, wk.stream)

\* mapping_socket.connect(&*addr)
WorkerConnect(p, w) ==
    /\ w \in DOMAIN workers[p]
    /\ workers[p][w].pc = "connect"
    /\ LET wk == workers[p][w]
           c == ConnectorConn(p, w)
           up == wk.addr \in Peers /\ lst[wk.addr] = "listening" IN
       \E ok \in IF up THEN Outcomes ELSE IF wk.addr = "X" THEN BOOLEAN ELSE {FALSE} :
         /\ faults' = IF ok \/ ~up THEN faults ELSE faults - 1
         /\ IF ok
            THEN /\ conns' = [conns EXCEPT ![c] =
                        [Unused EXCEPT !.st = "open", !.srv = wk.addr,
                                       !.cliOpen = TRUE, !.srvOpen = TRUE]]
                 /\ backlog' = IF up THEN [backlog EXCEPT ![wk.addr] = Append(@, c)]
                             ELSE backlog
                 /\ workers' = [workers EXCEPT ![p][w] =
                        [wk EXCEPT !.pc = "write", !.stream = CliEnd(c)]]
                 /\ UNCHANGED sent
            ELSE /\ Report(p, w, wk, ErrMsg("Connect", <<>>), conns)
                 /\ UNCHANGED backlog
    /\ UNCHANGED <<mapVars, cfg, strays, pc, idx, warnings, pending, result, acc, sentinel, shutdownOpen,
                   nrecv, rxAlive, lst, now>>

\* stream.set_write_timeout(Some(timeout)); stream.set_read_timeout(Some(timeout));
\* stream.write_all(&our_secret[..]), which fails when the connection was reset.
WorkerWrite(p, w) ==
    /\ w \in DOMAIN workers[p]
    /\ workers[p][w].pc = "write"
    /\ LET wk == workers[p][w] IN
       \/ \E ok \in Outcomes :
            /\ Fault(ok)
            /\ IF ok
               THEN /\ conns' = WriteTo(conns, wk.stream, cfg[p].our_secret)
                    /\ workers' = [workers EXCEPT ![p][w] =
                           [wk EXCEPT !.pc = "read", !.rto = set_read_timeout(timeout), !.since = now]]
                    /\ UNCHANGED sent
               ELSE Report(p, w, wk, ErrMsg("StreamSetTimeout", <<>>), conns)
       \/ /\ ~RemoteOpen(conns, wk.stream)
          /\ Report(p, w, wk, ErrMsg("StreamIo", <<>>), conns)
          /\ UNCHANGED faults
    /\ UNCHANGED <<mapVars, cfg, strays, pc, idx, warnings, pending, result, acc, sentinel, shutdownOpen,
                   nrecv, rxAlive, lst, backlog, now>>

\* One read call of stream.read_exact(&mut recv_data[..]): it returns the bytes that
\* have arrived, or 0 at end of stream (UnexpectedEof); the fourth byte ends the loop
\* and the comparison follows.
WorkerRead(p, w) ==
    /\ w \in DOMAIN workers[p]
    /\ workers[p][w].pc = "read"
    /\ LET wk == workers[p][w]
           inbox == Inbox(conns, wk.stream)
           n == Min(Len(inbox), SecretLen - Len(wk.recv_data))
           data == wk.recv_data \o SubSeq(inbox, 1, n)
           taken == TakeFrom(conns, wk.stream, n) IN
         IF inbox # <<>>
         THEN IF Len(data) < SecretLen
              THEN /\ workers' = [workers EXCEPT ![p][w] =
                         [wk EXCEPT !.recv_data = data, !.since = now]]
                   /\ conns' = taken
                   /\ UNCHANGED sent
              ELSE Report(p, w, [wk EXCEPT !.recv_data = data],
                          Compare(data, cfg[p].their_secret, wk.stream), taken)
         ELSE /\ ~RemoteOpen(conns, wk.stream)
              /\ Report(p, w, wk, ErrMsg("StreamIo", <<>>), conns)
    /\ UNCHANGED <<mapVars, cfg, strays, pc, idx, warnings, pending, result, acc, sentinel, shutdownOpen,
                   nrecv, rxAlive, lst, backlog, faults, now>>

\* A read call of read_exact returns with a timeout error: nothing arrived.
WorkerReadTimeout(p, w) ==
    /\ w \in DOMAIN workers[p]
    /\ workers[p][w].pc = "read"
    /\ workers[p][w].rto > 0
    /\ Inbox(conns, workers[p][w].stream) = <<>>
    /\ Report(p, w, workers[p][w], ErrMsg("StreamIo", <<>>), conns)
    /\ UNCHANGED <<mapVars, cfg, strays, pc, idx, warnings, pending, result, acc, sentinel, shutdownOpen,
                   nrecv, rxAlive, lst, backlog, faults, now>>

----------------------------------------------------------------------------
\* Hosts that are not peers.  They dial a listener, or are dialled by a connector,
\* and then write what they like, in pieces, or nothing, and close when they like.

\* The connections with a host X at one end, and that end.
StrayEnds ==
    {SrvEnd(c) : c \in {d \in ConnIds : conns[d].st = "open" /\ conns[d].srv = "X"}}
        \cup {CliEnd(StrayConn(k)) : k \in {j \in 1..MaxStray : conns[StrayConn(j)].st = "open"}}

\* The secret the peer at the other end of x waits for.
Awaited(x) == IF x[2] = "srv" THEN cfg[x[1][2]].their_secret ELSE cfg[conns[x[1]].srv].their_secret

\* What the host may write next: the next half of the awaited secret, or all that
\* is left of it or of a wrong one.
StrayPieces(good, wrote) ==
    {SubSeq(good, wrote + 1, wrote + n) :
        n \in {m \in {SecretLen \div 2, SecretLen - wrote} : wrote + m <= SecretLen}}
        \cup {SubSeq(Mutated(good), wrote + 1, SecretLen)}

StrayConnect(q) ==
    /\ lst[q] = "listening"
    /\ strays > 0
    /\ strays' = strays - 1
    /\ LET c == StrayConn(strays) IN
         /\ conns' = [conns EXCEPT ![c] =
                [Unused EXCEPT !.st = "open", !.srv = q,
                               !.cliOpen = TRUE, !.srvOpen = TRUE]]
         /\ backlog' = [backlog EXCEPT ![q] = Append(@, c)]
    /\ UNCHANGED <<mapVars, cfg, pc, idx, warnings, pending, result, workers, acc, sentinel,
                   shutdownOpen, sent, nrecv, rxAlive, lst, faults, now>>

StrayWrite(x) ==
    /\ x \in StrayEnds
    /\ LocalOpen(conns, x)
    /\ RemoteOpen(conns, x)
    /\ conns[x[1]].wrote < SecretLen
    /\ \E bytes \in StrayPieces(Awaited(x), conns[x[1]].wrote) :
         conns' = [conns EXCEPT
                      ![x[1]].wrote = @ + Len(bytes),
                      ![x[1]].toSrv = IF x[2] = "cli" THEN @ \o bytes ELSE @,
                      ![x[1]].toCli = IF x[2] = "srv" THEN @ \o bytes ELSE @]
    /\ UNCHANGED <<mapVars, cfg, strays, pc, idx, warnings, pending, result, workers, acc,
                   sentinel, shutdownOpen, sent, nrecv, rxAlive, lst, backlog, faults, now>>

StrayClose(x) ==
    /\ x \in StrayEnds
    /\ LocalOpen(conns, x)
    /\ RemoteOpen(conns, x)
    /\ conns' = [CloseEnd(conns, x) EXCEPT ![x[1]].wrote = 0]
    /\ UNCHANGED <<mapVars, cfg, strays, pc, idx, warnings, pending, result, workers, acc,
                   sentinel, shutdownOpen, sent, nrecv, rxAlive, lst, backlog, faults, now>>

----------------------------------------------------------------------------
\* Connectors of a call come first in `workers`, then one handshake worker per
\* connection its listener accepted.
WorkerIds == 1..(2 * MaxEndpoints + MaxStray + 1)

Calls(p) ==
    \/ MainLocalAddr(p)
    \/ MainBind(p)
    \/ MainListen(p)
    \/ MainRecv(p)
    \/ MainNudge(p)
    \/ AcceptorAccept(p)
    \/ SentinelUnparked(p)
    \/ \E w \in WorkerIds :
         \/ WorkerConnect(p, w)
         \/ WorkerWrite(p, w)
         \/ WorkerRead(p, w)

Hosts ==
    \/ \E p \in Peers :
         \/ StrayConnect(p)
         \/ AcceptorAcceptErr(p)
         \/ AcceptorWarn(p)
    \/ \E c \in ConnIds, side \in {"cli", "srv"} :
         \/ StrayWrite(<<c, side>>)
         \/ StrayClose(<<c, side>>)

\* The clock.  Time passes while every thread waits: for a connection, for bytes,
\* for a message, for its timeout.  A parked sentinel and a blocked read call do not
\* outlast their timeouts.

TickLen == timeout

Tick ==
    /\ now + TickLen <= MaxNow
    /\ \A p \in Peers :
         /\ ~ENABLED Calls(p)
         /\ acc[p].pc # "warn"
         /\ sentinel[p].pc = "parked" => now < sentinel[p].deadline
         /\ \A w \in DOMAIN workers[p] :
              workers[p][w].pc = "read" /\ workers[p][w].rto > 0
                  => now < workers[p][w].since + workers[p][w].rto
    /\ now' = now + TickLen
    /\ UNCHANGED <<mapVars, cfg, strays, pc, idx, warnings, pending, result, workers, acc,
                   sentinel, shutdownOpen, sent, nrecv, rxAlive, lst, backlog, conns,
                   faults>>

\* park_timeout returns because the timeout elapsed, on the clock.
SentinelTimeoutDue(p) ==
    /\ now >= sentinel[p].deadline
    /\ SentinelTimeout(p)

\* park_timeout returns early though nobody unparked the thread (std::thread: park
\* "may also return spuriously").
SentinelSpurious(p) ==
    /\ sentinel[p].pc = "parked"
    /\ SentinelSend(p)

\* A read call returns with a timeout error, on the clock.
WorkerReadTimeoutDue(p, w) ==
    /\ w \in DOMAIN workers[p]
    /\ now >= workers[p][w].since + workers[p][w].rto
    /\ WorkerReadTimeout(p, w)

Timeouts(p) ==
    \/ SentinelTimeout(p)
    \/ \E w \in WorkerIds : WorkerReadTimeout(p, w)

TimeoutsDue(p) ==
    \/ SentinelTimeoutDue(p)
    \/ SentinelSpurious(p)
    \/ \E w \in WorkerIds : WorkerReadTimeoutDue(p, w)

Next == Hosts \/ \E p \in Peers : Calls(p) \/ Timeouts(p)

NextTimed == Tick \/ Hosts \/ \E p \in Peers : Calls(p) \/ TimeoutsDue(p)

NextPair == \E p \in Peers : Calls(p) \/ Timeouts(p)

Spec == Init /\ [][Next]_vars

SpecTimed == Init /\ [][NextTimed]_vars

SpecPair == InitPair /\ [][NextPair]_vars

\* The threads of a call run whenever they can, and timeouts expire; hosts that are
\* not peers, and failures of the system, owe nothing.
SpecFair ==
    /\ Spec
    /\ \A p \in Peers :
         WF_vars(Calls(p)) /\ WF_vars(Timeouts(p)) /\ WF_vars(AcceptorWarn(p))

----------------------------------------------------------------------------
\* MappedTcpSocket::new and MappedTcpSocket::map.

\* The steps of MappedTcpSocket::new before it calls map, by the error each gives.
MappedTcpSocketNewSteps == <<"CreateSocket", "EnableReuseAddr", "EnableReusePort", "Bind">>

\* A new_reusably_bound_socket that goes on after a step failed.
AttemptedAll(failing) == NewReusablyBoundSocketSteps

\* The steps new_reusably_bound_socket attempts when step `failing` (0: none)
\* fails: each `return Err` leaves the function.
Attempted(failing) ==
    SubSeq(NewReusablyBoundSocketSteps, 1,
           IF failing = 0 THEN Len(NewReusablyBoundSocketSteps) ELSE failing)

\* A conversion of map's result that loses the warnings.
map_err_drops_warnings(r) ==
    IF r.kind = "WErr" THEN MapErr(<<"Map">> \o r.err) ELSE MapOk(r.endpoints, <<>>)

\* .map_err(|e| MappedTcpSocketNewError::Map { err: e })
map_err(r) == IF r.kind = "WErr" THEN MapErr(<<"Map">> \o r.err) ELSE r

\* Where the main path of map goes once the local and IGD endpoints are collected:
\* `for simple_server in simple_servers`, which spawns nothing for an empty list.
AfterEndpoints == IF map_args.servers = <<>> THEN "return" ELSE "spawn"

\* A match that takes every unspecified address for one without interfaces.
BranchSkipsInterfaces(a) ==
    IF a.family = "v4"
    THEN IF ipv4_is_unspecified(a.ip) THEN AfterEndpoints ELSE "local_v4"
    ELSE IF ipv6_is_unspecified(a.ip) THEN AfterEndpoints ELSE "local_v6"

\* A match that treats the unspecified address as any other address.
BranchIgnoresUnspecified(a) == IF a.family = "v4" THEN "local_v4" ELSE "local_v6"

\* match SocketAddrExt::ip(&local_addr): the branch taken and, for the loops over
\* interfaces, whether there is an interface to loop over.
Branch(a) ==
    IF a.family = "v4"
    THEN IF ipv4_is_unspecified(a.ip)
         THEN IF map_args.v4 = <<>> THEN AfterEndpoints ELSE "interfaces_v4"
         ELSE "local_v4"
    ELSE IF ipv6_is_unspecified(a.ip)
         THEN IF map_args.v6 = <<>> THEN AfterEndpoints ELSE "interfaces_v6"
         ELSE "local_v6"

\* Where a call goes when map is over: back to its caller, or back into new.
MapLeaves == IF map_args.entry = "new" THEN "new_return" ELSE "returned"

\* MappedTcpSocket::new up to its call of map: new_v4, reuse_address,
\* enable_so_reuseport, bind("0.0.0.0:0"); the first failure is returned.
NewSocket ==
    /\ map_pc = "new"
    /\ \E failing \in 0..Len(MappedTcpSocketNewSteps) :
         IF failing = 0
         THEN /\ map_args' = [map_args EXCEPT !.local_addr = Unspecified4]
              /\ map_pc' = "local_addr"
              /\ UNCHANGED new_result
         ELSE /\ new_result' = MapErr(<<MappedTcpSocketNewSteps[failing]>>)
              /\ map_pc' = "returned"
              /\ UNCHANGED map_args
    /\ UNCHANGED <<punchVars, map_idx, endpoints, map_warnings, igd_requests, gateway_searches,
                   mapping_threads, map_result>>

\* let local_addr = match socket_utils::tcp_builder_local_addr(&socket)
MapLocalAddr ==
    /\ map_pc = "local_addr"
    /\ \E ok \in BOOLEAN :
         IF ok
         THEN /\ map_pc' = Branch(map_args.local_addr)
              /\ UNCHANGED map_result
         ELSE /\ map_result' = MapErr(<<"SocketLocalAddr">>)
              /\ map_pc' = MapLeaves
    /\ UNCHANGED <<punchVars, map_args, map_idx, endpoints, map_warnings, igd_requests, gateway_searches,
                   mapping_threads, new_result>>

\* A get_any_address whose failure leaves no warning.
GetAnyAddressSilent(gateway, es, ws) ==
    \E ok \in BOOLEAN :
      /\ igd_requests' = igd_requests + 1
      /\ endpoints' = IF ok THEN Append(es, MappedSocketAddr(<<"external", gateway>>, FALSE, "igd"))
                      ELSE es
      /\ map_warnings' = ws

\* A get_any_address whose endpoint goes to the head of the list.
GetAnyAddressFirst(gateway, es, ws) ==
    \E ok \in BOOLEAN :
      /\ igd_requests' = igd_requests + 1
      /\ endpoints' = IF ok THEN <<MappedSocketAddr(<<"external", gateway>>, FALSE, "igd")>> \o es
                      ELSE es
      /\ map_warnings' = IF ok THEN ws ELSE Append(ws, EchoErr("GetExternalPort", gateway))

\* gateway.get_any_address(TCP, addr, 0, ..): an endpoint or a GetExternalPort
\* warning.  es and ws are the lists before the request.
GetAnyAddress(gateway, es, ws) ==
    \E ok \in BOOLEAN :
      /\ igd_requests' = igd_requests + 1
      /\ endpoints' = IF ok THEN Append(es, MappedSocketAddr(<<"external", gateway>>, FALSE, "igd"))
                      ELSE es
      /\ map_warnings' = IF ok THEN ws ELSE Append(ws, EchoErr("GetExternalPort", gateway))

\* One turn of `for iface_v4 in mapping_context::interfaces_v4(&mc)`.
MapInterfaceV4 ==
    /\ map_pc = "interfaces_v4"
    /\ LET iface_v4 == map_args.v4[map_idx]
           es == Append(endpoints, MappedSocketAddr(iface_v4.addr, FALSE, "iface")) IN
         IF iface_v4.gateway
         THEN GetAnyAddress(iface_v4.addr, es, map_warnings)
         ELSE /\ endpoints' = es
              /\ UNCHANGED <<map_warnings, igd_requests>>
    /\ IF map_idx < Len(map_args.v4)
       THEN map_idx' = map_idx + 1 /\ UNCHANGED map_pc
       ELSE map_idx' = 1 /\ map_pc' = AfterEndpoints
    /\ UNCHANGED <<punchVars, map_args, gateway_searches, mapping_threads, map_result,
                   new_result>>

\* A lookup that finds no interface, whatever the address.
MatchingNone(ip) == {}

\* The interfaces of the context that have address ip, in the context's order.
Matching(ip) == {i \in DOMAIN map_args.v4 : map_args.v4[i].addr = ip}

\* The socket is bound to a specific IPv4 address: its endpoint, then the gateway
\* of the first interface with that address or, if there is none, the gateway
\* igd::search_gateway_from_timeout finds, is asked for an external address.
MapLocalV4 ==
    /\ map_pc = "local_v4"
    /\ LET ip == map_args.local_addr.ip
           es == Append(endpoints, MappedSocketAddr(ip, FALSE, "local")) IN
         IF Matching(ip) # {}
         THEN LET first == CHOOSE i \in Matching(ip) : \A j \in Matching(ip) : i <= j IN
                /\ UNCHANGED gateway_searches
                /\ IF map_args.v4[first].gateway
                   THEN GetAnyAddress(ip, es, map_warnings)
                   ELSE /\ endpoints' = es
                        /\ UNCHANGED <<map_warnings, igd_requests>>
         ELSE /\ gateway_searches' = gateway_searches + 1
              /\ \/ GetAnyAddress(ip, es, map_warnings)
                 \/ /\ endpoints' = es
                    /\ map_warnings' = Append(map_warnings, EchoErr("FindGateway", ip))
                    /\ UNCHANGED igd_requests
    /\ map_pc' = AfterEndpoints
    /\ UNCHANGED <<punchVars, map_args, map_idx, mapping_threads, map_result, new_result>>

\* One turn of `for iface_v6 in mapping_context::interfaces_v6(&mc)`.
MapInterfaceV6 ==
    /\ map_pc = "interfaces_v6"
    /\ endpoints' = Append(endpoints,
                           MappedSocketAddr(map_args.v6[map_idx].addr, FALSE, "iface"))
    /\ IF map_idx < Len(map_args.v6)
       THEN map_idx' = map_idx + 1 /\ UNCHANGED map_pc
       ELSE map_idx' = 1 /\ map_pc' = AfterEndpoints
    /\ UNCHANGED <<punchVars, map_args, map_warnings, igd_requests, gateway_searches, mapping_threads,
                   map_result, new_result>>

\* The socket is bound to a specific IPv6 address: its endpoint.
MapLocalV6 ==
    /\ map_pc = "local_v6"
    /\ endpoints' = Append(endpoints,
                           MappedSocketAddr(map_args.local_addr.ip, FALSE, "local"))
    /\ map_pc' = AfterEndpoints
    /\ UNCHANGED <<punchVars, map_args, map_idx, map_warnings, igd_requests, gateway_searches,
                   mapping_threads, map_result, new_result>>

\* One turn of `for simple_server in simple_servers`: a worker is spawned.
MapSpawn ==
    /\ map_pc = "spawn"
    /\ mapping_threads' = Append(mapping_threads, EchoWorker(map_args.servers[map_idx]))
    /\ IF map_idx < Len(map_args.servers)
       THEN map_idx' = map_idx + 1 /\ UNCHANGED map_pc
       ELSE map_idx' = 1 /\ map_pc' = "join"
    /\ UNCHANGED <<punchVars, map_args, endpoints, map_warnings, igd_requests, gateway_searches,
                   map_result, new_result>>

\* A join loop that takes what a worker has, finished or not.
Joinable(t) == TRUE

\* mapping_thread.join() returns once the thread has ended.
Joined(t) == t.pc = "done"

\* A join loop that keeps the endpoints and forgets the warnings.
MapJoinDropsWarnings ==
    /\ map_pc = "join"
    /\ LET t == mapping_threads[map_idx] IN
         /\ Joined(t)
         /\ endpoints' = IF t.res.type = "Ok"
                         THEN Append(endpoints, MappedSocketAddr(t.res.addr, TRUE, "echo"))
                         ELSE endpoints
         /\ UNCHANGED map_warnings
    /\ IF map_idx < Len(mapping_threads)
       THEN map_idx' = map_idx + 1 /\ UNCHANGED map_pc
       ELSE map_idx' = 1 /\ map_pc' = "return"
    /\ UNCHANGED <<punchVars, map_args, igd_requests, gateway_searches, mapping_threads, map_result,
                   new_result>>

\* One turn of `for mapping_thread in mapping_threads`: join, then push the
\* endpoint or the warning.
MapJoin ==
    /\ map_pc = "join"
    /\ LET t == mapping_threads[map_idx] IN
         /\ Joined(t)
         /\ IF t.res.type = "Ok"
            THEN /\ endpoints' = Append(endpoints, MappedSocketAddr(t.res.addr, TRUE, "echo"))
                 /\ UNCHANGED map_warnings
            ELSE /\ map_warnings' = Append(map_warnings, t.res)
                 /\ UNCHANGED endpoints
    /\ IF map_idx < Len(mapping_threads)
       THEN map_idx' = map_idx + 1 /\ UNCHANGED map_pc
       ELSE map_idx' = 1 /\ map_pc' = "return"
    /\ UNCHANGED <<punchVars, map_args, igd_requests, gateway_searches, mapping_threads, map_result,
                   new_result>>

\* WOk(MappedTcpSocket { socket: socket, endpoints: endpoints }, warnings)
MapReturn ==
    /\ map_pc = "return"
    /\ map_result' = MapOk(endpoints, map_warnings)
    /\ map_pc' = MapLeaves
    /\ UNCHANGED <<punchVars, map_args, map_idx, endpoints, map_warnings, igd_requests, gateway_searches,
                   mapping_threads, new_result>>

\* MappedTcpSocket::new returns what map returned, an error wrapped as Map.
NewReturn ==
    /\ map_pc = "new_return"
    /\ new_result' = map_err(map_result)
    /\ map_pc' = "returned"
    /\ UNCHANGED <<punchVars, map_args, map_idx, endpoints, map_warnings, igd_requests, gateway_searches,
                   mapping_threads, map_result>>

----------------------------------------------------------------------------
\* The echo workers of map, and the servers they talk to.

EchoUnchanged ==
    UNCHANGED <<punchVars, map_args, map_pc, map_idx, endpoints, map_warnings,
                igd_requests, gateway_searches, map_result, new_result>>

\* The closure returns m (or, with pcNext not "done", goes on).
EchoStep(w, t) == mapping_threads' = [mapping_threads EXCEPT ![w] = t]

\* new_reusably_bound_socket(&local_addr)
EchoSocket(w) ==
    /\ w \in DOMAIN mapping_threads
    /\ mapping_threads[w].pc = "socket"
    /\ \E failing \in 0..Len(NewReusablyBoundSocketSteps) :
         LET r == new_reusably_bound_socket(failing)
             t == [mapping_threads[w] EXCEPT !.ops = Attempted(failing), !.socket = r] IN
           IF r = "Ok"
           THEN EchoStep(w, [t EXCEPT !.pc = "connect"])
           ELSE EchoStep(w, [t EXCEPT !.pc = "done",
                                      !.res = EchoErr("NewReusablyBoundSocket", r)])
    /\ EchoUnchanged

\* mapping_socket.connect(&*simple_server)
EchoConnect(w) ==
    /\ w \in DOMAIN mapping_threads
    /\ mapping_threads[w].pc = "connect"
    /\ \E ok \in BOOLEAN :
         IF ok
         THEN EchoStep(w, [mapping_threads[w] EXCEPT !.pc = "write"])
         ELSE EchoStep(w, [mapping_threads[w] EXCEPT
                              !.pc = "done", !.res = EchoErr("MappingSocketConnect", "io")])
    /\ EchoUnchanged

\* stream.write(&send_data[..])
EchoWrite(w) ==
    /\ w \in DOMAIN mapping_threads
    /\ mapping_threads[w].pc = "write"
    /\ \E ok \in BOOLEAN :
         IF ok
         THEN EchoStep(w, [mapping_threads[w] EXCEPT !.pc = "read"])
         ELSE EchoStep(w, [mapping_threads[w] EXCEPT
                              !.pc = "done", !.res = EchoErr("MappingSocketWrite", "io")])
    /\ EchoUnchanged

\* What a server may do with a connection: answer with the address it saw, answer
\* with something else, close, or reset.  It may also do nothing at all.
Replies(w) == {<<"EchoExternalAddr", <<"seen", w>>>>, <<"junk">>, <<>>, <<"reset">>}

EchoServer(w) ==
    /\ w \in DOMAIN mapping_threads
    /\ mapping_threads[w].pc = "read"
    /\ mapping_threads[w].inbox = NoReply
    /\ \E reply \in Replies(w) : EchoStep(w, [mapping_threads[w] EXCEPT !.inbox = reply])
    /\ EchoUnchanged

\* deserialise::<listener_message::EchoExternalAddr>(&recv_data[..n])
deserialise(bytes, server) ==
    IF Len(bytes) = 2 /\ bytes[1] = "EchoExternalAddr"
    THEN EchoOk(bytes[2])
    ELSE EchoErr("Deserialise", server)

\* stream.read(&mut recv_data[..]) returns once something arrived (bytes, the end of
\* the stream, an error): no timeout is set on the stream.  Then deserialise.
EchoRead(w) ==
    /\ w \in DOMAIN mapping_threads
    /\ mapping_threads[w].pc = "read"
    /\ mapping_threads[w].inbox # NoReply
    /\ LET t == mapping_threads[w] IN
         IF t.inbox = <<"reset">>
         THEN EchoStep(w, [t EXCEPT !.pc = "done", !.res = EchoErr("MappingSocketRead", "io")])
         ELSE EchoStep(w, [t EXCEPT !.pc = "done", !.res = deserialise(t.inbox, t.server)])
    /\ EchoUnchanged

\* The steps of the threads of a call of map or new.
MapCalls ==
    \/ NewSocket
    \/ MapLocalAddr
    \/ MapInterfaceV4
    \/ MapLocalV4
    \/ MapInterfaceV6
    \/ MapLocalV6
    \/ MapSpawn
    \/ MapJoin
    \/ MapReturn
    \/ NewReturn
    \/ \E w \in 1..MaxServers :
         \/ EchoSocket(w)
         \/ EchoConnect(w)
         \/ EchoWrite(w)
         \/ EchoRead(w)

NextMap == MapCalls \/ \E w \in 1..MaxServers : EchoServer(w)

SpecMap == InitMap /\ [][NextMap]_vars

\* The threads of map run whenever they can; the servers owe nothing.
SpecMapFair == SpecMap /\ WF_vars(MapCalls)

----------------------------------------------------------------------------
\* Properties.

\* listen succeeded: the acceptor and the sentinel of p's call were spawned.
Started(p) == sentinel[p].pc # "none"

\* The first k messages of p's channel are all warnings.
AllWarnings(p, k) == \A i \in 1..k : sent[p][i].type = "Err"

\* Worker w of p's call read 4 bytes on stream s, found them equal to their_secret
\* and produced Ok(s).
Handshaken(p, w, s) ==
    /\ workers[p][w].stream = s
    /\ workers[p][w].recv_data = cfg[p].their_secret
    /\ workers[p][w].res = OkMsg(s)

\* C1: a stream is produced, put on the channel, or returned by the call only if the
\* 4 bytes a worker of the call read on that very stream equal their_secret; this
\* holds for connectors and handshake workers alike.
C1_StreamOnlyAfterSecret ==
    \A p \in Peers :
      /\ \A w \in DOMAIN workers[p] :
           workers[p][w].res.type = "Ok"
               => Handshaken(p, w, workers[p][w].res.stream)
      /\ \A i \in DOMAIN sent[p] :
           sent[p][i].type = "Ok"
               => \E w \in DOMAIN workers[p] : Handshaken(p, w, sent[p][i].stream)
      /\ result[p].kind = "WOk"
               => \E w \in DOMAIN workers[p] : Handshaken(p, w, result[p].stream)

\* A connector and a handshake worker both produced a stream, and one was returned.
C1_Witness ==
    \E p \in Peers :
      /\ result[p].kind = "WOk"
      /\ \E w \in DOMAIN workers[p] :
           workers[p][w].kind = "connect" /\ workers[p][w].res.type = "Ok"
      /\ \E w \in DOMAIN workers[p] :
           workers[p][w].kind = "handshake" /\ workers[p][w].res.type = "Ok"

\* C2: a call that returns a stream returns the first Ok message of its channel, in
\* arrival order, with exactly the warnings that arrived before it, in that order;
\* the message consumed last stays that Ok: none after it is consumed.
C2_FirstOkInArrivalOrder ==
    \A p \in Peers :
      (pc[p] = "returned" /\ result[p].kind = "WOk") =>
          /\ nrecv[p] \in DOMAIN sent[p]
          /\ sent[p][nrecv[p]] = OkMsg(result[p].stream)
          /\ AllWarnings(p, nrecv[p] - 1)
          /\ result[p].warnings = SubSeq(sent[p], 1, nrecv[p] - 1)

\* A stream was returned with a warning before it, and a later message was left
\* on the channel.
C2_Witness ==
    \E p \in Peers :
      /\ pc[p] = "returned" /\ result[p].kind = "WOk"
      /\ result[p].warnings # <<>>
      /\ Len(sent[p]) > nrecv[p]

\* C3: once listen has succeeded the call ends with a stream or with TimedOut; it ends
\* with TimedOut only on the sentinel's message, with nothing but warnings before
\* it; and while the loop runs, what it has consumed are warnings, all kept.
C3_OnlyTimeoutFails ==
    \A p \in Peers :
      /\ (pc[p] = "recv") =>
            AllWarnings(p, nrecv[p]) /\ warnings[p] = SubSeq(sent[p], 1, nrecv[p])
      /\ (pc[p] = "returned" /\ Started(p)) =>
            /\ result[p].kind \in {"WOk", "TimedOut"}
            /\ result[p].kind = "TimedOut" =>
                  /\ nrecv[p] \in DOMAIN sent[p]
                  /\ sent[p][nrecv[p]] = NoneMsg
                  /\ AllWarnings(p, nrecv[p] - 1)
                  /\ result[p].warnings = SubSeq(sent[p], 1, nrecv[p] - 1)

\* A call timed out with warnings, and a stream that came after the timeout message
\* did not change that.
C3_Witness ==
    \E p \in Peers :
      /\ pc[p] = "returned" /\ result[p].kind = "TimedOut"
      /\ result[p].warnings # <<>>
      /\ \E i \in DOMAIN sent[p] : i > nrecv[p] /\ sent[p][i].type = "Ok"

\* C4 as stated: a call that ends in TimedOut carries warnings iff some worker of
\* the call put a warning on the channel.
C4_WarningsIffProduced ==
    \A p \in Peers :
      (pc[p] = "returned" /\ result[p].kind = "TimedOut") =>
          (result[p].warnings # <<>>
              <=> \E i \in DOMAIN sent[p] : sent[p][i].type = "Err")

\* Where the sentinel's timeout message stands on p's channel (0: nowhere).
NonePos(p) ==
    IF \E i \in DOMAIN sent[p] : sent[p][i] = NoneMsg
    THEN CHOOSE i \in DOMAIN sent[p] : sent[p][i] = NoneMsg
    ELSE 0

\* C4: a call that ends in TimedOut carries warnings iff a warning arrived on the
\* channel before the sentinel's timeout message; a warning that arrives after it
\* is not carried.
C4_WarningsIffBeforeTimeout ==
    \A p \in Peers :
      (pc[p] = "returned" /\ result[p].kind = "TimedOut") =>
          /\ NonePos(p) > 0
          /\ result[p].warnings # <<>>
                <=> \E i \in 1..(NonePos(p) - 1) : sent[p][i].type = "Err"
          /\ result[p].warnings = SubSeq(sent[p], 1, NonePos(p) - 1)

\* A call timed out with a warning before the timeout message and another after.
C4_Witness ==
    \E p \in Peers :
      /\ pc[p] = "returned" /\ result[p].kind = "TimedOut"
      /\ result[p].warnings # <<>>
      /\ \E i \in DOMAIN sent[p] : i > NonePos(p) /\ sent[p][i].type = "Err"

\* A's copy of B's info carries a secret that is not B's.
WrongSecret == cfg["A"].their_secret # get_priv_secret("B")

HasInvalidResponse(ws) == \E j \in DOMAIN ws : ws[j].warn = "InvalidResponse"

\* The outcome of a completed exchange (a stream or InvalidResponse) reached p's
\* channel before the sentinel's timeout message.
HandshakeFirst(p) ==
    \E i \in DOMAIN sent[p] :
      /\ sent[p][i].type = "Ok" \/ sent[p][i].warn = "InvalidResponse"
      /\ NonePos(p) = 0 \/ i < NonePos(p)

\* C5 as stated: with A misinformed of B's secret and the exchange on a connection
\* between them completed in time on both sides, both calls end in TimedOut, each
\* carrying InvalidResponse.
C5_BothTimeOut ==
    (WrongSecret /\ \A p \in Peers : pc[p] = "returned" /\ HandshakeFirst(p)) =>
        \A p \in Peers :
            result[p].kind = "TimedOut" /\ HasInvalidResponse(result[p].warnings)

\* C5: with A misinformed of B's secret, A never returns a stream: every exchange A
\* completes with B yields InvalidResponse carrying B's real secret, and A ends in
\* TimedOut, carrying InvalidResponse iff that warning preceded the timeout message.
\* B's side is untouched: every exchange B completes yields a stream, and B returns
\* a stream when one preceded its timeout message.
C5_OnlyMisinformedSideFails ==
    WrongSecret =>
      /\ pending["A"].kind # "WOk" /\ result["A"].kind # "WOk"
      /\ \A w \in DOMAIN workers["A"] :
           (workers["A"][w].pc = "done" /\ Len(workers["A"][w].recv_data) = SecretLen)
               => workers["A"][w].res = ErrMsg("InvalidResponse", get_priv_secret("B"))
      /\ pc["A"] = "returned" =>
           /\ result["A"].kind = "TimedOut"
           /\ HasInvalidResponse(result["A"].warnings) <=>
                 \E i \in 1..(NonePos("A") - 1) : sent["A"][i].warn = "InvalidResponse"
      /\ \A w \in DOMAIN workers["B"] :
           (workers["B"][w].pc = "done" /\ Len(workers["B"][w].recv_data) = SecretLen)
               => workers["B"][w].res = OkMsg(workers["B"][w].stream)
      /\ (pc["B"] = "returned" /\ HandshakeFirst("B")) => result["B"].kind = "WOk"

\* A timed out carrying InvalidResponse while B returned a stream.
C5_Witness ==
    /\ WrongSecret
    /\ result["A"].kind = "TimedOut" /\ HasInvalidResponse(result["A"].warnings)
    /\ result["B"].kind = "WOk"

\* C6: a call with an empty endpoint list has no connector; while its result loop
\* runs it listens and its acceptor runs; and when the first message on its channel
\* that is no warning is a stream, the call returns that stream, an accepted one.
C6_EmptyListStillAccepts ==
    \A p \in Peers :
      (cfg[p].endpoints = <<>> /\ pc[p] # "idle") =>
          /\ \A w \in DOMAIN workers[p] : workers[p][w].kind = "handshake"
          /\ pc[p] = "recv" =>
                lst[p] = "listening" /\ acc[p].pc \in {"accept", "warn"}
          /\ (pc[p] = "returned" /\ Started(p)) =>
                \A i \in DOMAIN sent[p] :
                    (sent[p][i].type = "Ok" /\ AllWarnings(p, i - 1)) =>
                        /\ result[p].kind = "WOk"
                        /\ result[p].stream = sent[p][i].stream
                        /\ result[p].stream[2] = "srv"

\* A call with an empty endpoint list returned an accepted stream.
C6_Witness ==
    \E p \in Peers :
      cfg[p].endpoints = <<>> /\ pc[p] = "returned" /\ result[p].kind = "WOk"

\* C7: an acceptor with a connection to accept can always accept it, whatever the
\* handshakes of earlier connections are waiting for; and every handshake worker
\* that read their_secret produced a stream.
C7_AcceptorNotBlocked ==
    \A p \in Peers :
      /\ (acc[p].pc = "accept" /\ backlog[p] # <<>>) => ENABLED AcceptorAccept(p)
      /\ \A w \in DOMAIN workers[p] :
           (workers[p][w].kind = "handshake" /\ workers[p][w].pc = "done"
               /\ workers[p][w].recv_data = cfg[p].their_secret)
               => workers[p][w].res = OkMsg(workers[p][w].stream)

\* An accepted connection has sent nothing and its worker still waits, while the
\* stream of a connection accepted after it was returned.
C7_Witness ==
    \E p \in Peers : \E w1, w2 \in DOMAIN workers[p] :
      /\ w1 < w2
      /\ workers[p][w1].kind = "handshake" /\ workers[p][w1].pc = "read"
      /\ workers[p][w1].recv_data = <<>>
      /\ conns[workers[p][w1].stream[1]].wrote = 0
      /\ workers[p][w2].kind = "handshake"
      /\ pc[p] = "returned" /\ result[p].kind = "WOk"
      /\ result[p].stream = workers[p][w2].stream

\* A dials B, B dials nobody, and each knows the other's secret.
ConnectorWins ==
    /\ cfg["A"].endpoints = <<"B">>
    /\ cfg["B"].endpoints = <<>>
    /\ ~WrongSecret

\* The bytes a worker has read and those waiting at its end of the stream.
InReach(p, w) == Len(workers[p][w].recv_data) + Len(Inbox(conns, workers[p][w].stream))

\* C8: in the connector-wins scenario, when A's connector and B's handshake worker
\* both wait to read, each has the other's whole secret within reach: both wrote
\* first.  An exchange that completes yields a stream on either side, and when both
\* calls return a stream these are the two ends of A's one connection.
C8_ConnectorWins ==
    ConnectorWins =>
      LET c == ConnectorConn("A", 1) IN
        /\ \A w \in DOMAIN workers["B"] :
             (/\ 1 \in DOMAIN workers["A"] /\ workers["A"][1].pc = "read"
              /\ workers["B"][w].stream = SrvEnd(c) /\ workers["B"][w].pc = "read")
                 => InReach("A", 1) = SecretLen /\ InReach("B", w) = SecretLen
        /\ \A p \in Peers : \A w \in DOMAIN workers[p] :
             (workers[p][w].pc = "done" /\ Len(workers[p][w].recv_data) = SecretLen)
                 => workers[p][w].res = OkMsg(workers[p][w].stream)
        /\ \A p \in Peers :
             result[p].kind = "WOk" =>
                 result[p].stream = (IF p = "A" THEN CliEnd(c) ELSE SrvEnd(c))

\* Both calls returned a stream in the connector-wins scenario.
C8_Witness ==
    ConnectorWins /\ result["A"].kind = "WOk" /\ result["B"].kind = "WOk"

\* C9 as stated: after a call that had listened returns, its acceptor eventually
\* leaves its loop and the listener is dropped.
C9_AcceptorLeaves ==
    \A p \in Peers :
      (pc[p] = "returned" /\ Started(p)) ~> (acc[p].pc = "done" /\ lst[p] = "closed")

\* C10 as stated: past the deadline of the call's sentinel, every thread the call
\* spawned has terminated, whatever the remote hosts did, no operation of the local
\* system having failed.
C10_AllThreadsEndByDeadline ==
    \A p \in Peers :
      (Started(p) /\ now > sentinel[p].deadline /\ faults = MaxFaults) =>
          /\ sentinel[p].pc = "done"
          /\ acc[p].pc = "done"
          /\ \A w \in DOMAIN workers[p] : workers[p][w].pc = "done"

\* C10: the sentinel ends no later than 20 s after it was spawned, and every read
\* call of a connector or handshake worker carries the 20 s timeout and returns no
\* later than 20 s after it began; a worker as a whole may outlive the deadline.
C10_EachWaitBounded ==
    \A p \in Peers :
      /\ sentinel[p].pc = "parked" => now <= sentinel[p].deadline
      /\ \A w \in DOMAIN workers[p] :
           workers[p][w].pc = "read" =>
               /\ workers[p][w].rto = timeout
               /\ now <= workers[p][w].since + timeout

\* A worker is still reading after the deadline of its call's sentinel.
C10_Witness ==
    \E p \in Peers : \E w \in DOMAIN workers[p] :
      /\ Started(p) /\ now > sentinel[p].deadline
      /\ workers[p][w].pc = "read"

----------------------------------------------------------------------------
\* Properties of MappedTcpSocket::map and MappedTcpSocket::new.

\* map has returned WOk.
MapSucceeded == map_result.kind = "WOk"

\* The endpoints of the result that are not NAT-restricted.
Unrestricted == {i \in DOMAIN map_result.endpoints : ~map_result.endpoints[i].nat_restricted}

\* The socket is bound to the unspecified address of its family.
BoundUnspecified ==
    \/ map_args.local_addr.family = "v4" /\ ipv4_is_unspecified(map_args.local_addr.ip)
    \/ map_args.local_addr.family = "v6" /\ ipv6_is_unspecified(map_args.local_addr.ip)

\* The interfaces of the context that have the family of the socket.
InterfacesOfFamily == IF map_args.local_addr.family = "v4" THEN map_args.v4 ELSE map_args.v6

\* C11 as stated: with a context of at least one interface, whatever its family, a
\* successful map returns at least one endpoint that is not NAT-restricted.
C11_AnyInterfaceSuffices ==
    (MapSucceeded /\ Len(map_args.v4) + Len(map_args.v6) >= 1) => Unrestricted # {}

\* C11: a successful map returns at least one endpoint that is not NAT-restricted
\* when the socket is bound to a specific address or the context has at least one
\* interface of the socket's address family.
C11_InterfaceOfFamilySuffices ==
    (MapSucceeded /\ (~BoundUnspecified \/ Len(InterfacesOfFamily) >= 1))
        => Unrestricted # {}

\* An IPv6 wildcard socket, a context with IPv6 interfaces only, and an
\* unrestricted endpoint in the result.
C11_Witness ==
    /\ MapSucceeded
    /\ map_args.local_addr = Unspecified6
    /\ map_args.v4 = <<>>
    /\ Len(map_args.v6) >= 1
    /\ Unrestricted # {}

\* The context of the call has no interface at all.
NoInterfaces == map_args.v4 = <<>> /\ map_args.v6 = <<>>

\* The warnings of the result that come from a gateway.
GatewayWarnings ==
    {i \in DOMAIN map_result.warnings :
       map_result.warnings[i].warn \in {"FindGateway", "GetExternalPort"}}

\* C12 as stated: on a socket bound to the unspecified address, with a context
\* that has no interface, map returns no endpoint and no warning.
C12_NoInterfacesNothing ==
    (MapSucceeded /\ BoundUnspecified /\ NoInterfaces)
        => map_result.endpoints = <<>> /\ map_result.warnings = <<>>

\* C12: on a socket bound to the unspecified address, with a context that has no
\* interface, map asks no gateway and returns no unrestricted endpoint and no
\* gateway warning; what it returns comes from the echo servers, one item each, so
\* the result has no endpoint and no warning when no echo server is registered.
C12_NoInterfacesOnlyEcho ==
    (MapSucceeded /\ BoundUnspecified /\ NoInterfaces)
        => /\ Unrestricted = {}
           /\ GatewayWarnings = {}
           /\ igd_requests = 0
           /\ Len(map_result.endpoints) + Len(map_result.warnings) = Len(map_args.servers)
           /\ map_args.servers = <<>>
                => map_result.endpoints = <<>> /\ map_result.warnings = <<>>

\* A wildcard socket, no interface, no echo server: map returned nothing.
C12_Witness ==
    /\ MapSucceeded
    /\ BoundUnspecified
    /\ NoInterfaces
    /\ map_args.servers = <<>>
    /\ map_result.endpoints = <<>>
    /\ map_result.warnings = <<>>

\* The positions of the result's endpoints that came from one of the origins.
From(origins) == {i \in DOMAIN map_result.endpoints : map_result.endpoints[i].from \in origins}

\* C13 as stated: in the returned list every endpoint of a local interface
\* precedes every endpoint of a gateway, and every endpoint of a gateway precedes
\* every endpoint of an echo server.
C13_InterfacesThenGatewaysThenEcho ==
    MapSucceeded =>
        /\ \A i \in From({"iface", "local"}) : \A j \in From({"igd"}) : i < j
        /\ \A i \in From({"igd"}) : \A j \in From({"echo"}) : i < j

\* C13: in the returned list the endpoint a gateway gave stands right after the
\* endpoint of the interface (or of the socket's own address) the gateway belongs
\* to, so the endpoints of interfaces and gateways alternate in the order of the
\* context's interfaces; every endpoint of an interface or a gateway precedes
\* every endpoint of an echo server, and these stand in the order of the servers.
C13_GatewayFollowsItsInterface ==
    MapSucceeded =>
        LET es == map_result.endpoints IN
          /\ \A i \in From({"igd"}) :
               /\ i - 1 \in From({"iface", "local"})
               /\ es[i].addr = <<"external", es[i - 1].addr>>
          /\ \A i \in From({"iface", "local", "igd"}) : \A j \in From({"echo"}) : i < j
          /\ \A i, j \in From({"echo"}) : i < j => es[i].addr[2] < es[j].addr[2]

\* An endpoint of a gateway, then one of a second interface, then one of an echo
\* server.
C13_Witness ==
    /\ MapSucceeded
    /\ \E i \in From({"igd"}) : \E j \in From({"iface"}) : \E k \in From({"echo"}) :
         i < j /\ j < k

\* The warnings a mapping thread can end with.
WorkerWarnings ==
    {"NewReusablyBoundSocket", "MappingSocketConnect", "MappingSocketWrite",
     "MappingSocketRead", "Deserialise"}

IsEchoEndpoint(e) == e.from = "echo"

IsWorkerWarning(x) == x.warn \in WorkerWarnings

EndedOk(t) == t.res.type = "Ok"

EndedErr(t) == t.res.type # "Ok"

\* What the mapping threads that ended with an address report, in spawn order.
ReportedAddrs ==
    LET ok == SelectSeq(mapping_threads, EndedOk) IN
      [i \in DOMAIN ok |-> MappedSocketAddr(ok[i].res.addr, TRUE, "echo")]

\* What the other mapping threads have as their result, in spawn order.
ReportedWarnings ==
    LET bad == SelectSeq(mapping_threads, EndedErr) IN [i \in DOMAIN bad |-> bad[i].res]

\* The call reached map: MappedTcpSocket::new did not fail before it.
MapCalled ==
    ~(map_args.entry = "new" /\ new_result.kind = "WErr" /\ new_result.err[1] # "Map")

\* C14: map returns WErr only for a local address that cannot be queried, and
\* then no gateway was asked and no worker was spawned; when it returns WOk there
\* is one worker per registered echo server, and each gave exactly one item: the
\* echo endpoints of the result are the addresses of the workers that got one, the
\* worker warnings of the result are the warnings of the others.
C14_OnlyLocalAddrIsFatal ==
    /\ map_result.kind = "WErr"
         => /\ map_result.err = <<"SocketLocalAddr">>
            /\ igd_requests = 0
            /\ mapping_threads = <<>>
    /\ map_pc \in {"returned", "new_return"} /\ MapCalled
         => map_result.kind \in {"WOk", "WErr"}
    /\ MapSucceeded
         => /\ Len(mapping_threads) = Len(map_args.servers)
            /\ SelectSeq(map_result.endpoints, IsEchoEndpoint) = ReportedAddrs
            /\ SelectSeq(map_result.warnings, IsWorkerWarning) = ReportedWarnings
            /\ Len(ReportedAddrs) + Len(ReportedWarnings) = Len(map_args.servers)

\* Two echo servers, one gave an endpoint and one a warning.
C14_Witness ==
    /\ MapSucceeded
    /\ Len(map_args.servers) = 2
    /\ Len(ReportedAddrs) = 1
    /\ Len(ReportedWarnings) = 1

\* C15: every call of map returns in the end, also when an echo server accepts the
\* connection and never answers: the worker gives up on it and map goes on.
C15_MapReturns == <>(map_pc = "returned")

\* The result of map holds what mapping thread t ended with.
Reflected(t) ==
    IF t.res.type = "Ok"
    THEN \E i \in From({"echo"}) :
           map_result.endpoints[i] = MappedSocketAddr(t.res.addr, TRUE, "echo")
    ELSE \E i \in DOMAIN map_result.warnings : map_result.warnings[i] = t.res

\* C16: when map has returned, every worker it spawned has ended, and the result
\* holds the endpoint or the warning each of them ended with.
C16_ReturnsAfterAllWorkers ==
    MapSucceeded =>
        \A w \in DOMAIN mapping_threads :
          /\ mapping_threads[w].pc = "done"
          /\ mapping_threads[w].res # NoOutcome
          /\ Reflected(mapping_threads[w])

\* map returned after two workers, one of which had waited for its server's answer.
C16_Witness ==
    /\ MapSucceeded
    /\ Len(mapping_threads) = 2
    /\ \E w \in DOMAIN mapping_threads : mapping_threads[w].inbox # NoReply
    /\ \A w \in DOMAIN mapping_threads : mapping_threads[w].pc = "done"

\* C17: in the list map returns, the NAT-restricted endpoints are those an echo
\* server reported (the address a worker read from its server), and the endpoints
\* of the socket's own address, of an interface of the context and of a gateway
\* are not NAT-restricted.
C17_RestrictedIffEcho ==
    MapSucceeded =>
        \A i \in DOMAIN map_result.endpoints :
          LET e == map_result.endpoints[i] IN
            /\ e.nat_restricted <=> e.from = "echo"
            /\ e.nat_restricted =>
                 \E w \in DOMAIN mapping_threads :
                   /\ mapping_threads[w].inbox = <<"EchoExternalAddr", e.addr>>
                   /\ mapping_threads[w].res.type = "Ok"
                   /\ mapping_threads[w].res.addr = e.addr
            /\ e.from \in {"local", "iface", "igd"} => ~e.nat_restricted

\* A result with an endpoint of an interface, one of a gateway and one of an echo
\* server.
C17_Witness ==
    /\ MapSucceeded
    /\ From({"iface"}) # {}
    /\ From({"igd"}) # {}
    /\ From({"echo"}) # {}
    /\ \E i \in From({"echo"}) : map_result.endpoints[i].nat_restricted

\* The mapping threads whose call of new_reusably_bound_socket is over.
SocketCalls == {w \in DOMAIN mapping_threads : mapping_threads[w].pc # "socket"}

\* C18: new_reusably_bound_socket creates the socket, enables reuse-address,
\* enables reuse-port and binds, in that order; a socket it returns had both flags
\* set before bind, and a failing step's error is returned with no later step
\* attempted.
C18_StepsInOrderStopAtFailure ==
    \A w \in SocketCalls :
      LET ops == mapping_threads[w].ops
          r == mapping_threads[w].socket
          order == <<"Create", "EnableReuseAddr", "EnableReusePort", "Bind">> IN
        /\ Len(ops) \in 1..4
        /\ ops = SubSeq(order, 1, Len(ops))
        /\ r = "Ok" => ops = order
        /\ r # "Ok" => r = ops[Len(ops)] /\ r \in {order[i] : i \in 1..4}

\* One worker got its socket, another failed at reuse-port and never bound.
C18_Witness ==
    /\ \E w \in SocketCalls : mapping_threads[w].socket = "Ok"
    /\ \E w \in SocketCalls :
         /\ mapping_threads[w].socket = "EnableReusePort"
         /\ mapping_threads[w].ops = <<"Create", "EnableReuseAddr", "EnableReusePort">>

\* C19: MappedTcpSocket::new returns the error of the step that failed
\* (CreateSocket, EnableReuseAddr, EnableReusePort, Bind) without having called
\* map; otherwise it calls map on an IPv4 socket bound to 0.0.0.0, returns an error
\* of map wrapped as Map, and returns the endpoints and the warnings of a
\* successful map as they are.
C19_NewWrapsMap ==
    (map_args.entry = "new" /\ map_pc = "returned") =>
        /\ new_result.kind \in {"WOk", "WErr"}
        /\ ~MapCalled
             => /\ new_result.err \in {<<"CreateSocket">>, <<"EnableReuseAddr">>,
                                       <<"EnableReusePort">>, <<"Bind">>}
                /\ map_result = NoMapResult
                /\ map_args.local_addr = NoAddr
                /\ endpoints = <<>> /\ mapping_threads = <<>> /\ igd_requests = 0
        /\ MapCalled
             => /\ map_args.local_addr = Unspecified4
                /\ map_result.kind \in {"WOk", "WErr"}
                /\ map_result.kind = "WErr"
                     => new_result = MapErr(<<"Map">> \o map_result.err)
                /\ map_result.kind = "WOk"
                     => /\ new_result.kind = "WOk"
                        /\ new_result.endpoints = map_result.endpoints
                        /\ new_result.warnings = map_result.warnings

\* new returned an endpoint and a warning that map had collected.
C19_Witness ==
    /\ map_args.entry = "new"
    /\ map_pc = "returned"
    /\ new_result.kind = "WOk"
    /\ new_result.endpoints # <<>>
    /\ new_result.warnings # <<>>

----------------------------------------------------------------------------
\* Termination of tcp_punch_hole.

\* C20: every call whose listen succeeded returns in the end, with a stream or
\* with TimedOut, whatever the hosts that are no peers do, provided the threads of
\* the call (its sentinel among them) get to run.
C20_CallReturns ==
    \A p \in Peers :
      Started(p) ~> (pc[p] = "returned" /\ result[p].kind \in {"WOk", "TimedOut"})

\* A call that a stray host had connected to returned TimedOut on the sentinel's
\* message, no worker having sent anything.
C20_Witness ==
    \E p \in Peers :
      /\ Started(p)
      /\ strays > 0
      /\ pc[p] = "returned"
      /\ result[p].kind = "TimedOut"
      /\ sent[p] = <<NoneMsg>>

----------------------------------------------------------------------------
\* Properties of the threads of tcp_punch_hole.

\* The timeout messages that entered p's channel.
TimeoutMessages(p) == {i \in DOMAIN sent[p] : sent[p][i] = NoneMsg}

\* C21: the sentinel of a call sends at most one timeout message; while the main
\* path is still in its result loop the sentinel has not sent it before the global
\* timeout elapsed; and the main path unparks the sentinel only when it is about
\* to return.
C21_SentinelFiresOnceAtDeadline ==
    \A p \in Peers :
      /\ Cardinality(TimeoutMessages(p)) <= 1
      /\ (pc[p] = "recv" /\ sentinel[p].pc = "done") => now >= sentinel[p].deadline
      /\ sentinel[p].token => pc[p] \in {"nudge", "returned"}

\* The connectors p's call has spawned.
Connectors(p) == {w \in DOMAIN workers[p] : workers[p][w].kind = "connect"}

\* Nothing of p's call beyond its connectors exists: listen was not called with
\* success, no acceptor, no sentinel, and no message was read from the channel.
NotListened(p) ==
    /\ lst[p] # "listening"
    /\ acc[p] = NoAcceptor
    /\ sentinel[p] = NoSentinel
    /\ nrecv[p] = 0
    /\ warnings[p] = <<>>

\* C22: when listen is called every connector socket has been bound (one connector
\* per endpoint exists); a call that fails at SocketLocalAddr has created no socket
\* and spawned no thread; one that fails at NewReusablyBoundSocket or at Listen has
\* no acceptor and no sentinel; and none of the three has read a message from the
\* results channel.
C22_SetupErrorsShortCircuit ==
    \A p \in Peers :
      /\ (acc[p] # NoAcceptor \/ result[p].kind = "Listen")
            => Cardinality(Connectors(p)) = Len(cfg[p].endpoints)
      /\ result[p].kind = "SocketLocalAddr"
            => /\ NotListened(p)
               /\ workers[p] = <<>>
               /\ idx[p] = 1
      /\ result[p].kind = "NewReusablyBoundSocket"
            => /\ NotListened(p)
               /\ Cardinality(Connectors(p)) = idx[p] - 1
               /\ idx[p] <= Len(cfg[p].endpoints)
      /\ result[p].kind = "Listen"
            => /\ NotListened(p)
               /\ \A w \in DOMAIN workers[p] : workers[p][w].kind = "connect"
      /\ result[p].kind \in {"SocketLocalAddr", "NewReusablyBoundSocket", "Listen"}
            => pc[p] = "returned" /\ ~rxAlive[p] /\ lst[p] = "closed"

\* listen failed after a connector had been spawned, and the call returned Listen
\* while that connector went on.
C22_Witness ==
    \E p \in Peers :
      /\ result[p].kind = "Listen"
      /\ Connectors(p) # {}
      /\ \E w \in Connectors(p) : workers[p][w].pc = "done"

\* C23: once the main path of a call has returned (results_rx dropped), a connector
\* or a handshake worker that reports ends, its message and its stream dropped; the
\* sentinel that sends ends; and the acceptor whose Accept warning cannot be sent
\* leaves its loop and drops the listener.  Nothing enters the channel any more.
C23_LateSendersEnd ==
    [][\A p \in Peers :
         ~rxAlive[p] =>
           /\ sent'[p] = sent[p]
           /\ \A w \in DOMAIN workers[p] :
                (workers[p][w].pc # "done" /\ workers'[p][w].pc = "done")
                   => /\ ~workers'[p][w].delivered
                      /\ workers'[p][w].stream # NoStream
                           => ~LocalOpen(conns', workers'[p][w].stream)
           /\ (sentinel[p].pc = "parked" /\ sentinel'[p] # sentinel[p])
                => sentinel'[p].pc = "done"
           /\ (acc[p].pc = "warn" /\ acc'[p] # acc[p])
                => acc'[p].pc = "done" /\ lst'[p] = "closed"]_vars

\* After the call returned a stream, a handshake worker got the right secret on
\* another connection and the sentinel woke up: neither message entered the channel.
C23_Witness ==
    \E p \in Peers :
      /\ ~rxAlive[p]
      /\ result[p].kind = "WOk"
      /\ sentinel[p].pc = "done"
      /\ TimeoutMessages(p) = {}
      /\ \E w \in DOMAIN workers[p] :
           /\ workers[p][w].pc = "done"
           /\ workers[p][w].res.type = "Ok"
           /\ ~workers[p][w].delivered

----------------------------------------------------------------------------
\* Properties of the IPv4 branches of MappedTcpSocket::map.

\* The IPv4 interfaces of the context that have a gateway.
WithGateway == {i \in DOMAIN map_args.v4 : map_args.v4[i].gateway}

\* The warnings of the result of one kind.
WarningsOf(kind) ==
    {i \in DOMAIN map_result.warnings : map_result.warnings[i].warn = kind}

IsInterfaceEndpoint(e) == e.from = "iface"

\* C24: for a socket bound to the unspecified IPv4 address map returns one endpoint
\* per IPv4 interface of the context, with the interface's address and in the
\* context's order; it asks a gateway once per interface that has one; and each
\* request gave one endpoint or one GetExternalPort warning.
C24_OneRequestPerGateway ==
    (MapSucceeded /\ map_args.local_addr = Unspecified4) =>
        LET ifaces == SelectSeq(map_result.endpoints, IsInterfaceEndpoint) IN
          /\ Len(ifaces) = Len(map_args.v4)
          /\ \A i \in DOMAIN ifaces : ifaces[i].addr = map_args.v4[i].addr
          /\ From({"local"}) = {}
          /\ igd_requests = Cardinality(WithGateway)
          /\ Cardinality(From({"igd"})) + Cardinality(WarningsOf("GetExternalPort"))
               = Cardinality(WithGateway)
          /\ \A i \in From({"igd"}) :
               \E j \in WithGateway :
                 map_result.endpoints[i].addr = <<"external", map_args.v4[j].addr>>
          /\ WarningsOf("FindGateway") = {}

\* Two interfaces with a gateway each: one gateway gave an address, the other a
\* warning.
C24_Witness ==
    /\ MapSucceeded
    /\ map_args.local_addr = Unspecified4
    /\ Cardinality(WithGateway) = 2
    /\ Cardinality(From({"igd"})) = 1
    /\ Cardinality(WarningsOf("GetExternalPort")) = 1

\* The socket is bound to a specific IPv4 address.
BoundSpecificV4 ==
    map_args.local_addr.family = "v4" /\ ~ipv4_is_unspecified(map_args.local_addr.ip)

\* The interfaces of the context that have the socket's address.
SameAddress == {i \in DOMAIN map_args.v4 : map_args.v4[i].addr = map_args.local_addr.ip}

\* C25: for a socket bound to a specific IPv4 address map searches for a gateway
\* exactly when no IPv4 interface of the context has that address.  When one has,
\* the gateway of the first such interface is used: no search, one request if it
\* has a gateway, none if it has not.  When none has, a search that fails leaves a
\* FindGateway warning and no request, one that succeeds is followed by one
\* request.  The local endpoint is returned first in every case, and map searches
\* in no other branch.
C25_SearchIffUnknownAddress ==
    /\ (MapSucceeded /\ ~BoundSpecificV4) => gateway_searches = 0
    /\ (MapSucceeded /\ BoundSpecificV4) =>
         /\ map_result.endpoints # <<>>
         /\ map_result.endpoints[1] = MappedSocketAddr(map_args.local_addr.ip, FALSE, "local")
         /\ IF SameAddress # {}
            THEN LET first == CHOOSE i \in SameAddress : \A j \in SameAddress : i <= j IN
                   /\ gateway_searches = 0
                   /\ WarningsOf("FindGateway") = {}
                   /\ igd_requests = IF map_args.v4[first].gateway THEN 1 ELSE 0
            ELSE /\ gateway_searches = 1
                 /\ Cardinality(WarningsOf("FindGateway")) + igd_requests = 1
         /\ Cardinality(From({"igd"})) + Cardinality(WarningsOf("GetExternalPort"))
              = igd_requests

\* The address of the socket is the address of no interface of a context that has
\* interfaces; the search failed, and the local endpoint was returned with the
\* FindGateway warning.
C25_Witness ==
    /\ MapSucceeded
    /\ BoundSpecificV4
    /\ map_args.v4 # <<>>
    /\ SameAddress = {}
    /\ gateway_searches = 1
    /\ WarningsOf("FindGateway") # {}
    /\ From({"local"}) = {1}

----------------------------------------------------------------------------
\* Properties of what tcp_punch_hole returns and leaves behind.

\* C26: when A and B call tcp_punch_hole against each other, each knowing the
\* other's secret, and both calls return a stream, the two streams are the two ends
\* of one connection, also when both connectors reached the other's listener and
\* both connections completed their handshakes.
C26_SameConnection ==
    (~WrongSecret /\ result["A"].kind = "WOk" /\ result["B"].kind = "WOk") =>
        /\ result["A"].stream[1] = result["B"].stream[1]
        /\ result["A"].stream[2] # result["B"].stream[2]

\* The streams the workers of p's call made or were given, that are still open at
\* p's end.
OpenStreams(p) ==
    {workers[p][w].stream :
        w \in {v \in DOMAIN workers[p] :
                 /\ workers[p][v].stream # NoStream
                 /\ LocalOpen(conns, workers[p][v].stream)}}

\* p's call has returned and every connector and handshake worker of it has ended.
Finished(p) == pc[p] = "returned" /\ \A w \in DOMAIN workers[p] : workers[p][w].pc = "done"

\* C27: after a call has returned and its workers have ended, the only stream of
\* the call still open at its end is the returned one, and none is open after
\* TimedOut or a setup error: a stream whose Ok message was never consumed or was
\* sent after the receiver was dropped is closed.
C27_OnlyReturnedStreamOpen ==
    \A p \in Peers :
      Finished(p) =>
        OpenStreams(p) = IF result[p].kind = "WOk" THEN {result[p].stream} ELSE {}

\* A call returned one stream while the Ok of another was queued and never
\* consumed.
C27_Witness ==
    \E p \in Peers :
      /\ Finished(p)
      /\ result[p].kind = "WOk"
      /\ \E w \in DOMAIN workers[p] :
           /\ workers[p][w].res.type = "Ok"
           /\ workers[p][w].delivered
           /\ workers[p][w].stream # result[p].stream

\* C28: once listener_shutdown_tx is dropped, a step of the acceptor that follows
\* a return of accept spawns no handshake worker and sends nothing: the acceptor
\* leaves its loop.  No worker is ever given the connection of the main path's
\* nudge, so the nudge yields neither a stream nor a warning.
C28_NoHandshakeAfterShutdown ==
    [][\A p \in Peers :
         /\ (acc[p].pc = "accept" /\ ~shutdownOpen[p] /\ acc'[p] # acc[p])
               => /\ acc'[p].pc = "done"
                  /\ workers'[p] = workers[p]
                  /\ sent'[p] = sent[p]
         /\ (acc[p] # NoAcceptor /\ ~shutdownOpen[p]) => Len(workers'[p]) = Len(workers[p])
         /\ \A w \in DOMAIN workers'[p] :
              workers'[p][w].stream[1] # NudgeConn(p)]_vars

\* The nudge of a returned call was accepted by its acceptor and dropped.
C28_Witness ==
    \E p \in Peers :
      /\ pc[p] = "returned"
      /\ acc[p].pc = "done"
      /\ conns[NudgeConn(p)] = Gone
      /\ \E w \in DOMAIN workers[p] : workers[p][w].kind = "handshake"

====
